---- MODULE Spec2Model ----
(***************************************************************************)
(* A model of the OpenAPI resolver of langchain/chains/api/openapi:        *)
(* parser.py (dict based component extraction, schema composition and      *)
(* operation-id derivation) and typed_parser.py (in-place dereferencing of *)
(* the typed document).                                                    *)
(*                                                                         *)
(* Python values are tagged records (field t); OpenAPI schema dicts are    *)
(* records whose DOMAIN is the set of keys present ("$ref" is written      *)
(* ref); ordered dicts are sequences of [name, def] entries.  A call is    *)
(* evaluated in one step and yields [exc, val, result, seen]: the exception*)
(* raised ("none" when it returned), the value returned, and the two       *)
(* objects the code mutates in place, the cache `result` and the           *)
(* visitation set `seen`.                                                  *)
(***************************************************************************)
EXTENDS Naturals, Sequences, FiniteSets, TLC

VARIABLES
  doc,         \* the loaded document (the dict handed to parser.py)
  moduleSpec,  \* what the free name `spec` of parser.py's module globals is bound to
  op,          \* the last operation called
  arg,         \* its argument
  ret          \* its outcome

vars == <<doc, moduleSpec, op, arg, ret>>

----------------------------------------------------------------------------
(* Bounds *)

\* Python frames available to one top-level call; exhausting them is RecursionError.
MaxDepth == 14

----------------------------------------------------------------------------
(* Python values *)

NoneV == [t |-> "None"]
Prim(p) == [t |-> "type", v |-> p]
StrV(s) == [t |-> "str", v |-> s]
ListOf(x) == [t |-> "list", item |-> x]
ModelField(ty, default) == [t |-> "field", type |-> ty, default |-> default]
NoneType == [t |-> "NoneType"]
ForwardRef(s) == [t |-> "ForwardRef", v |-> s]
UnionOf(ms) == [t |-> "Union", members |-> ms]

\* isinstance(x, dict): schema dicts carry no tag
IsDict(x) == "t" \notin DOMAIN x

Ok(v, result, seen) == [exc |-> "none", val |-> v, result |-> result, seen |-> seen]
Raise(e, result, seen) == [exc |-> e, val |-> NoneV, result |-> result, seen |-> seen]
\* raise e(msg): the message is kept as the value of the outcome
RaiseMsg(e, msg, result, seen) == [exc |-> e, val |-> StrV(msg), result |-> result, seen |-> seen]
\* the exception of outcome r leaves the calling frame
Reraise(r, seen) == [exc |-> r.exc, val |-> r.val, result |-> r.result, seen |-> seen]

----------------------------------------------------------------------------
(* dict operations on ordered dicts *)

DictHas(d, k) == \E i \in 1..Len(d) : d[i].name = k
DictGet(d, k) == d[CHOOSE i \in 1..Len(d) : d[i].name = k].def
\* not Python's dict: an assignment that moves an existing key to the end
DictSetMovingKey(d, k, v) ==
  Append(SelectSeq(d, LAMBDA x : x.name # k), [name |-> k, def |-> v])
\* d[k] = v: an existing key keeps its position
DictSet(d, k, v) ==
  IF DictHas(d, k)
    THEN [i \in 1..Len(d) |-> IF d[i].name = k THEN [name |-> k, def |-> v] ELSE d[i]]
    ELSE Append(d, [name |-> k, def |-> v])
RECURSIVE DictUpdate(_, _)
DictUpdate(d, e) ==
  IF Len(e) = 0 THEN d ELSE DictUpdate(DictSet(d, Head(e).name, Head(e).def), Tail(e))
DictPop(d, k) == SelectSeq(d, LAMBDA x : x.name # k)
DictKeys(d) == {d[i].name : i \in 1..Len(d)}
KeySeq(d) == [i \in 1..Len(d) |-> d[i].name]
SeqSet(s) == {s[i] : i \in 1..Len(s)}

Has(s, k) == k \in DOMAIN s
\* s.get("type")
TypeOf(s) == IF Has(s, "type") THEN s.type ELSE "None"
\* s.get("properties", {}) and s.get("required", [])
PropertiesOf(s) == IF Has(s, "properties") THEN s.properties ELSE <<>>
RequiredOf(s) == IF Has(s, "required") THEN s.required ELSE <<>>

----------------------------------------------------------------------------
(* parser.py: types *)

PRIMITIVE_TYPES == {"number", "integer", "string", "boolean", "null"}

\* PRIMITIVE_TYPES[ty]
PrimitiveType(ty) ==
  CASE ty = "number" -> Prim("float")
    [] ty = "integer" -> Prim("int")
    [] ty = "string" -> Prim("str")
    [] ty = "boolean" -> Prim("bool")
    [] OTHER -> NoneV

\* typing.Union[params]: None becomes NoneType, a string a ForwardRef, nested
\* Unions are flattened, duplicates dropped; a single parameter is returned bare.
UnionParam(x) ==
  IF x.t = "None" THEN NoneType ELSE IF x.t = "str" THEN ForwardRef(x.v) ELSE x
RECURSIVE Flatten(_)
Flatten(xs) ==
  IF Len(xs) = 0 THEN <<>>
  ELSE (IF Head(xs).t = "Union" THEN Head(xs).members ELSE <<UnionParam(Head(xs))>>)
         \o Flatten(Tail(xs))
RECURSIVE Dedup(_, _)
Dedup(xs, acc) ==
  IF Len(xs) = 0 THEN acc
  ELSE Dedup(Tail(xs), IF \E i \in 1..Len(acc) : acc[i] = Head(xs) THEN acc ELSE Append(acc, Head(xs)))
UnionCallable(x) == x.t \in {"None", "str", "type", "model", "list", "Union", "NoneType", "ForwardRef"}
Union(types, result, seen) ==
  IF Len(types) = 0 THEN Raise("TypeError", result, seen)
  ELSE IF \E i \in 1..Len(types) : ~UnionCallable(types[i]) THEN Raise("TypeError", result, seen)
  ELSE LET ms == Dedup(Flatten(types), <<>>)
       IN  Ok(IF Len(ms) = 1 THEN ms[1] ELSE UnionOf(ms), result, seen)

\* ref_path = schema["$ref"].split("/"): the path below "#", as section and name
RefName(schema) == schema.ref.name

\* ref_model_def = spec; for p in ref_path[1:]: ref_model_def = ref_model_def[p]
\* "TypeError" when spec is a string, "KeyError" when a key of the path is absent
\* (KeyError(p), p being the component name: the sections are present)
RefLookupError(schema, spec) ==
  IF spec.kind = "url" THEN "TypeError"
  ELSE IF schema.ref.section = "schemas" /\ DictHas(spec.schemas, schema.ref.name) THEN "none"
  ELSE IF schema.ref.section = "parameters" /\ DictHas(spec.parameters, schema.ref.name) THEN "none"
  ELSE "KeyError"
RefLookup(schema, spec) ==
  IF schema.ref.section = "schemas" THEN DictGet(spec.schemas, schema.ref.name)
  ELSE DictGet(spec.parameters, schema.ref.name)

\* the free name `spec` read from the module globals: NameError when unbound
GlobalUnbound(g) == g.kind = "unbound"

\* `name in seen`
InSeen(name, seen) == name \in seen

\* fields of a generated model that are required: value.default is ...
RequiredFields(fields) ==
  LET req == SelectSeq(fields, LAMBDA f : f.def.default = "...")
  IN  [i \in 1..Len(req) |-> req[i].name]

\* _create_pydantic_model: a field named "schema" is re-inserted as "schema_"
_create_pydantic_model(name, fields) ==
  [t |-> "model", name |-> name,
   fields |-> IF DictHas(fields, "schema")
                THEN Append(DictPop(fields, "schema"), [name |-> "schema_", def |-> DictGet(fields, "schema")])
                ELSE fields]

\* allof_def = {"properties": all_properties, "type": "object", "required": all_required}
allof_def(all_properties, all_required) ==
  [properties |-> all_properties, type |-> "object", required |-> all_required]

----------------------------------------------------------------------------
(* parser.py: the mutually recursive resolver.  g is the binding of the    *)
(* module global `spec`, fuel the frames left.  A call of one function by  *)
(* another goes through Call, the one recursive operator, which dispatches *)
(* on the callee.                                                          *)

RECURSIVE Call(_)
Call_get_pydantic_type(schema, result, spec, seen, g, fuel) ==
  Call([f |-> "_get_pydantic_type", schema |-> schema, result |-> result, spec |-> spec,
        seen |-> seen, g |-> g, fuel |-> fuel])
Call_create_component_model(name, model_def, result, seen, g, fuel) ==
  Call([f |-> "_create_component_model", name |-> name, model_def |-> model_def,
        result |-> result, seen |-> seen, g |-> g, fuel |-> fuel])
Call_create_model_from_fields(name, properties, required, result, seen, g, fuel) ==
  Call([f |-> "_create_model_from_fields", name |-> name, properties |-> properties,
        required |-> required, result |-> result, seen |-> seen, g |-> g, fuel |-> fuel])

RECURSIVE FieldsLoop(_, _, _, _, _, _, _)
RECURSIVE TypesOf(_, _, _, _, _, _)
RECURSIVE ComponentAllOf(_, _, _, _, _, _, _)
RECURSIVE SchemaAllOf(_, _, _, _, _, _, _, _)

\* for prop_name, prop_def in properties.items(): ...   (lines 74-82)
FieldsLoop(properties, required, fields, result, seen, g, fuel) ==
  IF Len(properties) = 0 THEN [exc |-> "none", fields |-> fields, result |-> result, seen |-> seen]
  ELSE
    LET p == Head(properties)
        flag == IF p.name \in SeqSet(required) THEN "..." ELSE "None"
    IN  IF IsDict(p.def)
          THEN IF GlobalUnbound(g)
                 THEN [exc |-> "NameError", val |-> NoneV, fields |-> fields, result |-> result, seen |-> seen]
                 ELSE LET r == Call_get_pydantic_type(p.def, result, g, seen, g, fuel)
                      IN  IF r.exc # "none"
                            THEN [exc |-> r.exc, val |-> r.val, fields |-> fields, result |-> r.result, seen |-> r.seen]
                            ELSE FieldsLoop(Tail(properties), required,
                                            DictSet(fields, p.name, ModelField(r.val, flag)),
                                            r.result, r.seen, g, fuel)
          ELSE FieldsLoop(Tail(properties), required,
                          DictSet(fields, p.name, ModelField(p.def, flag)), result, seen, g, fuel)

_create_model_from_fields(name, properties, required, result, seen, g, fuel) ==
  IF fuel = 0 THEN Raise("RecursionError", result, seen)
  ELSE LET r == FieldsLoop(properties, required, <<>>, result, seen, g, fuel - 1)
       IN  IF r.exc # "none" THEN Reraise(r, r.seen)
           ELSE Ok(_create_pydantic_model(name, r.fields), r.result, r.seen)

\* [Call_get_pydantic_type(s, result, spec, seen=seen) for s in schemas]
TypesOf(schemas, result, spec, seen, g, fuel) ==
  IF Len(schemas) = 0 THEN [exc |-> "none", vals |-> <<>>, result |-> result, seen |-> seen]
  ELSE LET h == Call_get_pydantic_type(Head(schemas), result, spec, seen, g, fuel)
       IN  IF h.exc # "none"
             THEN [exc |-> h.exc, val |-> h.val, vals |-> <<>>, result |-> h.result, seen |-> h.seen]
           ELSE LET rest == TypesOf(Tail(schemas), h.result, spec, h.seen, g, fuel)
                IN  [rest EXCEPT !.vals = <<h.val>> \o rest.vals]

\* the allOf loop of _create_component_model (lines 108-128)
ComponentAllOf(branches, all_properties, all_required, result, seen, g, fuel) ==
  IF Len(branches) = 0
    THEN [exc |-> "none", properties |-> all_properties, required |-> all_required,
          result |-> result, seen |-> seen]
  ELSE
    LET s == Head(branches)
        fail(e, v, res, sn) == [exc |-> e, val |-> v, properties |-> all_properties,
                                required |-> all_required, result |-> res, seen |-> sn]
    IN  IF Has(s, "properties")
          THEN ComponentAllOf(Tail(branches), DictUpdate(all_properties, s.properties),
                              all_required \o RequiredOf(s), result, seen, g, fuel)
        ELSE IF Has(s, "ref")
          THEN IF GlobalUnbound(g) THEN fail("NameError", NoneV, result, seen)
               ELSE LET r == Call_get_pydantic_type(s, result, g, seen, g, fuel)
                    IN  IF r.exc # "none" THEN fail(r.exc, r.val, r.result, r.seen)
                        ELSE IF r.val.t # "model" THEN fail("AttributeError", NoneV, r.result, r.seen)
                        ELSE ComponentAllOf(Tail(branches), DictUpdate(all_properties, r.val.fields),
                                            all_required \o RequiredFields(r.val.fields),
                                            r.result, r.seen, g, fuel)
        ELSE IF TypeOf(s) \in {"object", "None"}
          THEN ComponentAllOf(Tail(branches), all_properties, all_required, result, seen, g, fuel)
        ELSE fail("ValueError", NoneV, result, seen)

_create_component_model(name, model_def, result, seen, g, fuel) ==
  IF fuel = 0 THEN Raise("RecursionError", result, seen)
  ELSE IF InSeen(name, seen) THEN Ok(StrV(name), result, seen)
  ELSE
    LET seen1 == seen \cup {name} IN
    IF Has(model_def, "anyOf") \/ Has(model_def, "oneOf") THEN
      LET key == IF Has(model_def, "anyOf") THEN "anyOf" ELSE "oneOf" IN
      IF Len(model_def[key]) > 0 /\ GlobalUnbound(g) THEN Raise("NameError", result, seen1)
      ELSE LET r == TypesOf(model_def[key], result, g, seen1, g, fuel - 1) IN
           IF r.exc # "none" THEN Reraise(r, r.seen)
           ELSE IF Len(r.vals) = 1 THEN Ok(r.vals[1], r.result, r.seen)
           ELSE Union(r.vals, r.result, r.seen)
    ELSE IF Has(model_def, "allOf") THEN
      LET m == ComponentAllOf(model_def.allOf, <<>>, <<>>, result, seen1, g, fuel - 1) IN
      IF m.exc # "none" THEN Reraise(m, m.seen)
      ELSE Call_create_model_from_fields(name, m.properties, m.required, m.result, m.seen, g, fuel - 1)
    ELSE IF TypeOf(model_def) = "object" \/ Len(PropertiesOf(model_def)) > 0 THEN
      Call_create_model_from_fields(name, PropertiesOf(model_def), RequiredOf(model_def),
                                result, seen1, g, fuel - 1)
    ELSE IF TypeOf(model_def) \in PRIMITIVE_TYPES THEN
      Ok(PrimitiveType(TypeOf(model_def)), result, seen1)
    ELSE IF TypeOf(model_def) = "array" THEN
      \* line 138 calls _get_pydantic_type without its positional `spec`
      IF ~Has(model_def, "items") THEN Raise("KeyError", result, seen1)
      ELSE Raise("TypeError", result, seen1)
    ELSE IF TypeOf(model_def) = "None" THEN Ok(NoneV, result, seen1)
    ELSE Raise("ValueError", result, seen1)

\* the allOf loop of _get_pydantic_type (lines 207-227)
SchemaAllOf(branches, all_properties, all_required, prim_types, result, spec, g, fuel) ==
  IF Len(branches) = 0
    THEN [exc |-> "none", properties |-> all_properties, required |-> all_required,
          prim_types |-> prim_types, result |-> result]
  ELSE
    LET s == Head(branches) IN
    IF Has(s, "properties")
      THEN SchemaAllOf(Tail(branches), DictUpdate(all_properties, s.properties),
                       all_required \o RequiredOf(s), prim_types, result, spec, g, fuel)
    ELSE IF Has(s, "ref")
      THEN \* line 212 passes no `seen`: the reference is resolved with a fresh set
           LET r == Call_get_pydantic_type(s, result, spec, {}, g, fuel)
           IN  IF r.exc # "none"
                 THEN [exc |-> r.exc, val |-> r.val, properties |-> all_properties,
                       required |-> all_required, prim_types |-> prim_types, result |-> r.result]
               ELSE IF r.val.t = "model"
                 THEN SchemaAllOf(Tail(branches), DictUpdate(all_properties, r.val.fields),
                                  all_required \o RequiredFields(r.val.fields), prim_types,
                                  r.result, spec, g, fuel)
               ELSE SchemaAllOf(Tail(branches), all_properties, all_required,
                                Append(prim_types, r.val), r.result, spec, g, fuel)
    ELSE SchemaAllOf(Tail(branches), all_properties, all_required, prim_types, result, spec, g, fuel)

_get_pydantic_type(schema, result, spec, seen, g, fuel) ==
  IF fuel = 0 THEN Raise("RecursionError", result, seen)
  ELSE IF Has(schema, "ref") THEN
    LET ref_model_name == RefName(schema) IN
    IF ~DictHas(result, ref_model_name) THEN
      IF RefLookupError(schema, spec) = "KeyError" THEN RaiseMsg("KeyError", ref_model_name, result, seen)
      ELSE IF RefLookupError(schema, spec) # "none" THEN Raise(RefLookupError(schema, spec), result, seen)
      ELSE LET ref_model_def == RefLookup(schema, spec) IN
        IF TypeOf(ref_model_def) \in PRIMITIVE_TYPES
          THEN Ok(PrimitiveType(TypeOf(ref_model_def)), result, seen)
        ELSE IF InSeen(ref_model_name, seen) THEN Ok(StrV(ref_model_name), result, seen)
        ELSE LET r == Call_create_component_model(ref_model_name, ref_model_def, result, seen, g, fuel - 1)
             IN  IF r.exc # "none" THEN r
                 ELSE Ok(r.val, DictSet(r.result, ref_model_name, r.val), r.seen)
    ELSE Ok(DictGet(result, ref_model_name), result, seen)
  ELSE
    LET schema_type == TypeOf(schema) IN
    IF schema_type = "object" \/ Len(PropertiesOf(schema)) > 0 THEN
      Call_create_component_model("AnonymousModel", schema, result, seen, g, fuel - 1)
    ELSE IF schema_type = "array" THEN
      IF ~Has(schema, "items") THEN Raise("KeyError", result, seen)
      ELSE LET r == Call_get_pydantic_type(schema.items, result, spec, seen, g, fuel - 1)
           IN  IF r.exc # "none" THEN r ELSE Ok(ListOf(r.val), r.result, r.seen)
    ELSE IF schema_type = "integer" THEN Ok(Prim("int"), result, seen)
    ELSE IF schema_type = "number" THEN Ok(Prim("float"), result, seen)
    ELSE IF schema_type = "string" THEN Ok(Prim("str"), result, seen)
    ELSE IF schema_type = "boolean" THEN Ok(Prim("bool"), result, seen)
    ELSE IF schema_type = "null" THEN Ok(NoneV, result, seen)
    ELSE IF Has(schema, "oneOf") \/ Has(schema, "anyOf") THEN
      LET key == IF Has(schema, "oneOf") THEN "oneOf" ELSE "anyOf"
          r == TypesOf(schema[key], result, spec, seen, g, fuel - 1)
      IN  IF r.exc # "none" THEN Reraise(r, r.seen)
          ELSE Union(r.vals, r.result, r.seen)
    ELSE IF Has(schema, "allOf") THEN
      LET m == SchemaAllOf(schema.allOf, <<>>, <<>>, <<>>, result, spec, g, fuel - 1) IN
      IF m.exc # "none" THEN Reraise(m, seen)
      ELSE IF Len(m.prim_types) > 0 THEN
        IF Len(m.properties) > 0
          THEN RaiseMsg("APIParsingError", "Cannot mix primitives and non-primitives in allOf",
                        m.result, seen)
        ELSE IF Len(m.prim_types) = 1 THEN Ok(m.prim_types[1], m.result, seen)
        ELSE RaiseMsg("APIParsingError", "Cannot have multiple primitive types in an allOf",
                      m.result, seen)
      ELSE Call_create_component_model("MergedModel", allof_def(m.properties, m.required),
                                   m.result, seen, g, fuel - 1)
    ELSE IF schema_type = "None" THEN Ok(NoneV, result, seen)
    ELSE Raise("ValueError", result, seen)

Call(c) ==
  CASE c.f = "_get_pydantic_type" ->
         _get_pydantic_type(c.schema, c.result, c.spec, c.seen, c.g, c.fuel)
    [] c.f = "_create_component_model" ->
         _create_component_model(c.name, c.model_def, c.result, c.seen, c.g, c.fuel)
    [] c.f = "_create_model_from_fields" ->
         _create_model_from_fields(c.name, c.properties, c.required, c.result, c.seen, c.g, c.fuel)

\* extract_components (lines 254-261)
RECURSIVE ComponentsLoop(_, _, _)
ComponentsLoop(schemas, result, g) ==
  IF Len(schemas) = 0 THEN Ok(NoneV, result, {})
  ELSE LET r == Call_create_component_model(Head(schemas).name, Head(schemas).def, result, {}, g, MaxDepth)
       IN  IF r.exc # "none" THEN r
           ELSE ComponentsLoop(Tail(schemas), DictSet(r.result, Head(schemas).name, r.val), g)
extract_components(spec, g) == ComponentsLoop(spec.schemas, <<>>, g)

----------------------------------------------------------------------------
(* Documents and schemas the operations are applied to *)

\* inline branches of one allOf / oneOf / anyOf composition
MaxBranches == 3

String == [type |-> "string"]
Integer == [type |-> "integer"]
Untyped == [description |-> "undocumented"]
Ref(n) == [ref |-> [section |-> "schemas", name |-> n]]
Arr(s) == [type |-> "array", items |-> s]
P(n, s) == [name |-> n, def |-> s]
Obj(props, req) == [type |-> "object", properties |-> props, required |-> req]
AllOf(bs) == [allOf |-> bs]
OneOf(bs) == [oneOf |-> bs]
AnyOf(bs) == [anyOf |-> bs]

ObjP == Obj(<<P("p", String), P("q", Integer)>>, <<"p">>)
ObjQ == Obj(<<P("q", String), P("r", Integer)>>, <<"r">>)
ObjS == Obj(<<P("schema", String), P("z", Integer)>>, <<"z">>)

\* definitions of component A
PoolA ==
  { Obj(<<P("name", String), P("children", Arr(Ref("A")))>>, <<"name">>),
    Obj(<<P("peer", Ref("B"))>>, <<>>),
    Obj(<<P("x", AllOf(<<Ref("A")>>))>>, <<>>),
    Obj(<<P("x", ObjP), P("y", ObjQ)>>, <<"x">>),
    Obj(<<P("x", AllOf(<<ObjP>>)), P("y", AllOf(<<ObjQ>>))>>, <<>>),
    Obj(<<P("id", Integer), P("tag", String)>>, <<"id">>),
    AllOf(<<Ref("B"), ObjP>>),
    AllOf(<<Ref("A"), ObjP>>),
    OneOf(<<Ref("B"), String>>),
    AnyOf(<<Ref("A")>>),
    String,
    Untyped }

\* definitions of component B
PoolB ==
  { Obj(<<P("id", Integer)>>, <<"id">>),
    Obj(<<P("owner", Ref("A"))>>, <<"owner">>),
    AllOf(<<ObjQ, Ref("A")>>),
    AnyOf(<<Ref("A"), Integer>>),
    Arr(String),
    Integer }

Document(schemas) == [kind |-> "doc", schemas |-> schemas, parameters |-> <<>>]

Documents ==
  { Document(<<P("A", a)>>) : a \in PoolA }
    \cup { Document(<<P("A", a), P("B", b)>>) : a \in PoolA, b \in PoolB }
    \cup { Document(<<P("B", b), P("A", a)>>) : a \in PoolA, b \in PoolB }

\* what the module global `spec` of parser.py is bound to: nothing (the module
\* was imported), the URL string of the __main__ loop (line 605), or the
\* document (bound by the embedding program)
Bindings == {"unbound", "url", "document"}

\* branches of a composition: inline objects, an inline primitive, references
InlineObjects == {ObjP, ObjQ, ObjS}
Branches == InlineObjects \cup {String, Ref("A"), Ref("B")}
RECURSIVE SeqsUpTo(_, _)
SeqsUpTo(S, n) ==
  IF n = 0 THEN {<<>>}
  ELSE LET shorter == SeqsUpTo(S, n - 1)
       IN  shorter \cup {Append(q, x) : q \in {z \in shorter : Len(z) = n - 1}, x \in S}
\* compositions of inline objects, and of one or two branches of any kind
InlineLists == SeqsUpTo(InlineObjects, MaxBranches) \ {<<>>}
MixedLists == {<<a>> : a \in Branches} \cup {<<a, b>> : a \in Branches, b \in Branches}

\* a schema without `type` and without any other keyword the resolver reads,
\* alone, as a property, as the items of an array and as a oneOf/anyOf branch
UntypedHolders ==
  {Untyped, Obj(<<P("u", Untyped)>>, <<>>), Arr(Untyped), OneOf(<<Untyped, String>>), AnyOf(<<Untyped>>)}

\* schemas handed to _get_pydantic_type and _create_component_model directly
QuerySchemas ==
  {AllOf(bs) : bs \in InlineLists \cup MixedLists}
    \cup {OneOf(bs) : bs \in MixedLists}
    \cup {AnyOf(bs) : bs \in MixedLists}
    \cup {Ref("A"), Ref("B"), Ref("Missing"), Arr(Ref("A")), Untyped, [type |-> "weird"]}
    \cup {Obj(<<P("m", Ref("Missing"))>>, <<>>), AnyOf(<<Ref("Missing")>>), Arr(Ref("Missing"))}
    \cup UntypedHolders

NoArg == [none |-> TRUE]
Idle == Ok(NoneV, <<>>, {})

----------------------------------------------------------------------------
(* The resolver of parser.py as a state machine: a document is loaded, and *)
(* each step is one top-level call on it.                                  *)

Init ==
  /\ doc \in Documents
  /\ moduleSpec \in Bindings
  /\ op = "none"
  /\ arg = NoArg
  /\ ret = Idle

\* the value of the global `spec`
Global == IF moduleSpec = "document" THEN doc ELSE [kind |-> moduleSpec]

\* extract_components(spec)
ExtractComponents ==
  /\ op = "none"
  /\ op' = "extract_components"
  /\ arg' = NoArg
  /\ ret' = extract_components(doc, Global)
  /\ UNCHANGED <<doc, moduleSpec>>

\* _get_pydantic_type(schema, {}, spec)
GetPydanticType ==
  /\ op = "none"
  /\ \E schema \in QuerySchemas :
       /\ op' = "_get_pydantic_type"
       /\ arg' = schema
       /\ ret' = Call_get_pydantic_type(schema, <<>>, doc, {}, Global, MaxDepth)
  /\ UNCHANGED <<doc, moduleSpec>>

\* _create_component_model("Top", model_def, {})
CreateComponentModel ==
  /\ op = "none"
  /\ \E model_def \in QuerySchemas :
       /\ op' = "_create_component_model"
       /\ arg' = model_def
       /\ ret' = Call_create_component_model("Top", model_def, <<>>, {}, Global, MaxDepth)
  /\ UNCHANGED <<doc, moduleSpec>>

\* the caller takes the outcome; the next call starts with fresh arguments
Return ==
  /\ op # "none"
  /\ op' = "none"
  /\ arg' = NoArg
  /\ ret' = Idle
  /\ UNCHANGED <<doc, moduleSpec>>

Next == ExtractComponents \/ GetPydanticType \/ CreateComponentModel \/ Return

Spec == Init /\ [][Next]_vars

----------------------------------------------------------------------------
(* Operation ids.  A string is the sequence of its characters.             *)

\* longest path drawn, in characters (the path /users/{id} is drawn besides)
MaxPathLen == 3

LowerCase == <<"a", "b", "c", "d", "e", "f", "g", "h", "i", "j", "k", "l", "m", "n", "o", "p", "q", "r", "s", "t", "u", "v", "w", "x", "y", "z">>
UpperCase == <<"A", "B", "C", "D", "E", "F", "G", "H", "I", "J", "K", "L", "M", "N", "O", "P", "Q", "R", "S", "T", "U", "V", "W", "X", "Y", "Z">>
Digits == {"0", "1", "2", "3", "4", "5", "6", "7", "8", "9"}
\* the class [a-zA-Z0-9]
IsAlnum(c) == c \in SeqSet(LowerCase) \cup SeqSet(UpperCase) \cup Digits

\* str.upper(), character by character
UpperChar(c) ==
  IF c \in SeqSet(LowerCase) THEN UpperCase[CHOOSE i \in 1..Len(LowerCase) : LowerCase[i] = c] ELSE c
Upper(str) == [i \in 1..Len(str) |-> UpperChar(str[i])]

\* the identity on strings (a path kept with its leading characters)
NoStrip(str, c) == str
\* str.lstrip(c)
RECURSIVE LStrip(_, _)
LStrip(str, c) == IF Len(str) > 0 /\ Head(str) = c THEN LStrip(Tail(str), c) ELSE str

\* re.sub(r"[^a-zA-Z0-9]", "_", str)
SubNonAlnum(str) == [i \in 1..Len(str) |-> IF IsAlnum(str[i]) THEN str[i] ELSE "_"]

\* str.replace(old, new) for one-character old and new
Replace(str, old, new) == [i \in 1..Len(str) |-> IF str[i] = old THEN new ELSE str[i]]

\* parser.py, lines 35-41
_get_cleaned_operation_id(operation_id, path, verb) ==
  LET derived == SubNonAlnum(LStrip(path, "/")) \o Upper(verb)
      id == IF operation_id.t = "None" THEN derived ELSE operation_id.v
  IN  Replace(Replace(Replace(id, "-", "_"), ".", "_"), "/", "_")

\* typed_parser.py, lines 307-314
get_cleaned_operation_id(operation, path, verb) ==
  LET operation_id == operation.operationId
      derived == SubNonAlnum(LStrip(path, "/")) \o Upper(verb)
      id == IF operation_id.t = "None" THEN derived ELSE operation_id.v
  IN  Replace(Replace(Replace(id, "-", "_"), ".", "_"), "/", "_")

PathChars == {"/", "{", "-", ".", "_", "a", "Z", "7"}
UsersIdPath == <<"/", "u", "s", "e", "r", "s", "/", "{", "i", "d", "}">>
Paths == SeqsUpTo(PathChars, MaxPathLen) \cup {UsersIdPath}
Get == <<"g", "e", "t">>
Verbs == {Get, <<"p", "o", "s", "t">>, <<"d", "e", "l", "e", "t", "e">>}
\* operationId of the operation: absent, or a string of the document
OperationIds ==
  {NoneV, StrV(<<>>), StrV(<<"g", "e", "t", "-", "u", "s", "e", "r", ".", "v", "1">>), StrV(<<"a", "/", "{", "b", "}">>)}

InitOpId ==
  /\ doc = Document(<<>>)
  /\ moduleSpec = "unbound"
  /\ op = "none"
  /\ arg = NoArg
  /\ ret = Idle

\* _get_cleaned_operation_id(operation_id, path, verb)
CleanedOperationId ==
  /\ op = "none"
  /\ \E operation_id \in OperationIds, path \in Paths, verb \in Verbs :
       /\ op' = "_get_cleaned_operation_id"
       /\ arg' = [operation_id |-> operation_id, path |-> path, verb |-> verb]
       /\ ret' = Ok(StrV(_get_cleaned_operation_id(operation_id, path, verb)), <<>>, {})
  /\ UNCHANGED <<doc, moduleSpec>>

\* get_cleaned_operation_id(operation, path, verb), operation.operationId being operation_id
TypedCleanedOperationId ==
  /\ op = "none"
  /\ \E operation_id \in OperationIds, path \in Paths, verb \in Verbs :
       /\ op' = "get_cleaned_operation_id"
       /\ arg' = [operation_id |-> operation_id, path |-> path, verb |-> verb]
       /\ ret' = Ok(StrV(get_cleaned_operation_id([operationId |-> operation_id], path, verb)), <<>>, {})
  /\ UNCHANGED <<doc, moduleSpec>>

NextOpId == CleanedOperationId \/ TypedCleanedOperationId \/ Return

SpecOpId == InitOpId /\ [][NextOpId]_vars

\* an id was derived: the call was made for an operation without operationId
Derived ==
  /\ op \in {"_get_cleaned_operation_id", "get_cleaned_operation_id"}
  /\ arg.operation_id.t = "None"
\* the number of "/" the path starts with
LeadingSlashes(path) ==
  CHOOSE k \in 0..Len(path) :
    /\ \A i \in 1..k : path[i] = "/"
    /\ k = Len(path) \/ path[k + 1] # "/"

----------------------------------------------------------------------------
(* typed_parser.py: in-place dereferencing of the typed document.  The     *)
(* document's objects live on a heap (object id -> object) that the calls  *)
(* mutate; a child of a Schema is a Reference or a pointer to an object,   *)
(* named by the object's id.                                               *)
(* An outcome is [exc, val, heap].                                         *)

Reference(section, name) == [t |-> "Reference", ref |-> [section |-> section, name |-> name]]
Ptr(id) == [t |-> "object", id |-> id]
Schema(properties, anyOf, description) ==
  [kind |-> "Schema", properties |-> properties, anyOf |-> anyOf, description |-> description]
Parameter(description) == [kind |-> "Parameter", description |-> description]

TOk(v, heap) == [exc |-> "none", val |-> v, heap |-> heap]
TRaise(e, heap) == [exc |-> e, val |-> NoneV, heap |-> heap]
\* raise e(msg): the message is kept as the value of the outcome
TRaiseMsg(e, msg, heap) == [exc |-> e, val |-> StrV(msg), heap |-> heap]
\* the exception of outcome r leaves the calling frame
TReraise(r) == [exc |-> r.exc, val |-> r.val, heap |-> r.heap]

\* isinstance(x, Reference)
IsReference(x) == x.t = "Reference"
\* ref.split("/")[-1]
RefLast(ref) == ref.name

RECURSIVE CallTyped(_)
Call_resolve_reference(ref, spec, heap, fuel) ==
  CallTyped([f |-> "_resolve_reference", ref |-> ref, spec |-> spec, heap |-> heap, fuel |-> fuel])
Call_dereference_anyof(schema, spec, heap, fuel) ==
  CallTyped([f |-> "_dereference_anyof", schema |-> schema, spec |-> spec, heap |-> heap, fuel |-> fuel])
Call_dereference_properties(schema, spec, heap, fuel) ==
  CallTyped([f |-> "_dereference_properties", schema |-> schema, spec |-> spec, heap |-> heap, fuel |-> fuel])
Call_dereference_children(schema, spec, heap, fuel) ==
  CallTyped([f |-> "_dereference_children", schema |-> schema, spec |-> spec, heap |-> heap, fuel |-> fuel])

\* the component dicts searched after components.schemas, in the order of lines 69-73
ComponentTypes(spec) == <<spec.parameters, spec.requestBodies, spec.responses>>

\* _resolve_reference (lines 58-77)
_resolve_reference(ref, spec, heap, fuel) ==
  IF fuel = 0 THEN TRaise("RecursionError", heap)
  ELSE
    LET ref_name == RefLast(ref) IN
    IF DictHas(spec.schemas, ref_name)
      THEN LET schema == DictGet(spec.schemas, ref_name)
               r == Call_dereference_children(schema, spec, heap, fuel - 1)
           IN  IF r.exc # "none" THEN r ELSE TOk(schema, r.heap)
    ELSE IF \E i \in 1..3 : DictHas(ComponentTypes(spec)[i], ref_name)
      THEN LET i == CHOOSE i \in 1..3 :
                      /\ DictHas(ComponentTypes(spec)[i], ref_name)
                      /\ \A j \in 1..(i - 1) : ~DictHas(ComponentTypes(spec)[j], ref_name)
           IN  TOk(DictGet(ComponentTypes(spec)[i], ref_name), heap)
    \* ValueError(f"Reference {ref} not found in spec")
    ELSE TRaiseMsg("ValueError", ref, heap)

\* for any_of_schema in schema.anyOf: ...   (lines 84-88)
RECURSIVE AnyOfLoop(_, _, _, _, _)
AnyOfLoop(anyOf, resolved_any_of, spec, heap, fuel) ==
  IF Len(anyOf) = 0 THEN [exc |-> "none", val |-> NoneV, resolved |-> resolved_any_of, heap |-> heap]
  ELSE IF IsReference(Head(anyOf))
    THEN LET r == Call_resolve_reference(Head(anyOf).ref, spec, heap, fuel)
         IN  IF r.exc # "none"
               THEN [exc |-> r.exc, val |-> r.val, resolved |-> resolved_any_of, heap |-> r.heap]
               ELSE AnyOfLoop(Tail(anyOf), Append(resolved_any_of, r.val), spec, r.heap, fuel)
    ELSE AnyOfLoop(Tail(anyOf), Append(resolved_any_of, Head(anyOf)), spec, heap, fuel)

\* not the code: the resolved branches are added to schema.anyOf instead of
\* replacing it
_dereference_anyof_extending(schema, spec, heap, fuel) ==
  IF fuel = 0 THEN TRaise("RecursionError", heap)
  ELSE IF ~Has(heap[schema.id], "anyOf") THEN TRaise("AttributeError", heap)
  ELSE IF Len(heap[schema.id].anyOf) = 0 THEN TOk(NoneV, heap)
  ELSE LET r == AnyOfLoop(heap[schema.id].anyOf, <<>>, spec, heap, fuel - 1)
       IN  IF r.exc # "none" THEN TReraise(r)
           ELSE TOk(NoneV, [r.heap EXCEPT ![schema.id].anyOf = @ \o r.resolved])

\* _dereference_anyof (lines 80-89)
_dereference_anyof(schema, spec, heap, fuel) ==
  IF fuel = 0 THEN TRaise("RecursionError", heap)
  ELSE IF ~Has(heap[schema.id], "anyOf") THEN TRaise("AttributeError", heap)
  ELSE IF Len(heap[schema.id].anyOf) = 0 THEN TOk(NoneV, heap)
  ELSE LET r == AnyOfLoop(heap[schema.id].anyOf, <<>>, spec, heap, fuel - 1)
       IN  IF r.exc # "none" THEN TReraise(r)
           ELSE TOk(NoneV, [r.heap EXCEPT ![schema.id].anyOf = r.resolved])

\* for prop_name, prop_schema in schema.properties.items(): ...   (lines 96-103)
RECURSIVE PropertiesLoop(_, _, _, _, _)
PropertiesLoop(properties, resolved_properties, spec, heap, fuel) ==
  IF Len(properties) = 0
    THEN [exc |-> "none", val |-> NoneV, resolved |-> resolved_properties, heap |-> heap]
  ELSE
    LET prop_name == Head(properties).name
        prop_schema == Head(properties).def
        r == IF IsReference(prop_schema)
               THEN Call_resolve_reference(prop_schema.ref, spec, heap, fuel)
               ELSE TOk(prop_schema, heap)
    IN  IF r.exc # "none"
          THEN [exc |-> r.exc, val |-> r.val, resolved |-> resolved_properties, heap |-> r.heap]
          ELSE LET c == Call_dereference_children(r.val, spec, r.heap, fuel)
               IN  IF c.exc # "none"
                     THEN [exc |-> c.exc, val |-> c.val, resolved |-> resolved_properties, heap |-> c.heap]
                     ELSE PropertiesLoop(Tail(properties), DictSet(resolved_properties, prop_name, r.val),
                                         spec, c.heap, fuel)

\* _dereference_properties (lines 92-104)
_dereference_properties(schema, spec, heap, fuel) ==
  IF fuel = 0 THEN TRaise("RecursionError", heap)
  ELSE IF ~Has(heap[schema.id], "properties") THEN TRaise("AttributeError", heap)
  ELSE IF Len(heap[schema.id].properties) = 0 THEN TOk(NoneV, heap)
  ELSE LET r == PropertiesLoop(heap[schema.id].properties, <<>>, spec, heap, fuel - 1)
       IN  IF r.exc # "none" THEN TReraise(r)
           ELSE TOk(NoneV, [r.heap EXCEPT ![schema.id].properties = r.resolved])

\* _dereference_children (lines 107-110)
_dereference_children(schema, spec, heap, fuel) ==
  IF fuel = 0 THEN TRaise("RecursionError", heap)
  ELSE LET a == Call_dereference_anyof(schema, spec, heap, fuel - 1)
       IN  IF a.exc # "none" THEN a
           ELSE Call_dereference_properties(schema, spec, a.heap, fuel - 1)

CallTyped(c) ==
  CASE c.f = "_resolve_reference" -> _resolve_reference(c.ref, c.spec, c.heap, c.fuel)
    [] c.f = "_dereference_anyof" -> _dereference_anyof(c.schema, c.spec, c.heap, c.fuel)
    [] c.f = "_dereference_properties" -> _dereference_properties(c.schema, c.spec, c.heap, c.fuel)
    [] c.f = "_dereference_children" -> _dereference_children(c.schema, c.spec, c.heap, c.fuel)

\* resolve_schema (lines 317-332); description is "None" when not given
resolve_schema(schema, spec, description, heap, fuel) ==
  IF fuel = 0 THEN TRaise("RecursionError", heap)
  ELSE
    LET r == IF IsReference(schema)
               THEN Call_resolve_reference(schema.ref, spec, heap, fuel - 1)
               ELSE TOk(schema, heap)
    IN  IF r.exc # "none" THEN r
        ELSE LET _schema == r.val
                 described ==
                   IF description # "None" /\ r.heap[_schema.id].description = "None"
                     THEN [r.heap EXCEPT ![_schema.id].description = description]
                     ELSE r.heap
                 c == Call_dereference_children(_schema, spec, described, fuel - 1)
             IN  IF c.exc # "none" THEN c ELSE TOk(_schema, c.heap)

\* a media type of a content dict, with its schema (None when it has none)
MediaType(media_type_schema) == [kind |-> "MediaType", media_type_schema |-> media_type_schema]
\* x.description of a Reference
DescriptionOf(x) == IF Has(x, "description") THEN x.description ELSE "None"

\* for encoding_style in supported_encodings: ...   (lines 118-133); the
\* outcome carries the dict result
RECURSIVE MediaTypesLoop(_, _, _, _, _)
MediaTypesLoop(content, result, spec, heap, fuel) ==
  IF Len(content) = 0 THEN [exc |-> "none", val |-> NoneV, result |-> result, heap |-> heap]
  ELSE
    LET encoding_style == Head(content).name
        media_type == Head(content).def
        media_type_schema == media_type.media_type_schema
        resolved(r) ==
          IF r.exc # "none" THEN [exc |-> r.exc, val |-> r.val, result |-> result, heap |-> r.heap]
          ELSE MediaTypesLoop(
                 Tail(content), DictSet(result, encoding_style, r.val), spec,
                 IF r.heap[r.val.id].description = "None"
                   THEN [r.heap EXCEPT ![r.val.id].description = DescriptionOf(media_type_schema)]
                   ELSE r.heap,
                 fuel)
    IN  IF media_type_schema = NoneV THEN MediaTypesLoop(Tail(content), result, spec, heap, fuel)
        ELSE IF IsReference(media_type_schema)
          THEN resolved(Call_resolve_reference(media_type_schema.ref, spec, heap, fuel))
        ELSE MediaTypesLoop(Tail(content), DictSet(result, encoding_style, media_type_schema),
                            spec, heap, fuel)

\* _resolve_media_type_schema (lines 113-134)
_resolve_media_type_schema(content, spec, heap, fuel) ==
  IF fuel = 0 THEN [exc |-> "RecursionError", val |-> NoneV, result |-> <<>>, heap |-> heap]
  ELSE MediaTypesLoop(content, <<>>, spec, heap, fuel - 1)

\* _resolve_request_body_schema (lines 137-150): the pair returned is
\* [schema, encoding], None being "None" for the encoding; popitem() takes
\* the entry inserted last
_resolve_request_body_schema(operation, spec, heap, fuel) ==
  LET nothing(h) == TOk([schema |-> NoneV, encoding |-> "None"], h)
      chosen(m) ==
        IF m.exc # "none" THEN TReraise(m)
        ELSE IF Len(m.result) = 0 THEN nothing(m.heap)
        ELSE TOk([schema |-> m.result[Len(m.result)].def, encoding |-> m.result[Len(m.result)].name],
                 m.heap)
  IN  IF fuel = 0 THEN TRaise("RecursionError", heap)
      ELSE IF operation.requestBody = NoneV THEN nothing(heap)
      ELSE IF Len(operation.requestBody.content) = 0 THEN nothing(heap)
      ELSE chosen(_resolve_media_type_schema(operation.requestBody.content, spec, heap, fuel - 1))

\* OpenAPISpec._get_referenced_parameter (openapi_utils.py, lines 85-90); ref
\* is the Reference object
OpenAPISpec_get_referenced_parameter(self, ref, heap) ==
  LET ref_name == RefLast(ref.ref) IN
  IF ~DictHas(self.parameters, ref_name) THEN TRaiseMsg("ValueError", ref_name, heap)
  ELSE TOk(DictGet(self.parameters, ref_name), heap)

\* OpenAPISpec.get_referenced_schema (openapi_utils.py, lines 99-104)
OpenAPISpec_get_referenced_schema(self, ref, heap) ==
  LET ref_name == RefLast(ref.ref) IN
  IF ~DictHas(self.schemas, ref_name) THEN TRaiseMsg("ValueError", ref_name, heap)
  ELSE TOk(DictGet(self.schemas, ref_name), heap)

\* Typed documents: components A and B, an inline object schema, a leaf
\* schema and a component parameter P
SchemaA == "@A"
SchemaB == "@B"
InlineSchema == "@inline"
LeafSchema == "@leaf"
ParameterP == "@P"
\* the heap holding the five objects
Heap(a, b, inline, leaf, p) ==
  (SchemaA :> a) @@ (SchemaB :> b) @@ (InlineSchema :> inline) @@ (LeafSchema :> leaf) @@ (ParameterP :> p)

RefA == Reference("schemas", "A")
RefB == Reference("schemas", "B")
TypedChildren == {RefA, RefB, Reference("schemas", "Missing"), Reference("parameters", "P"),
                  Ptr(InlineSchema), Ptr(LeafSchema)}
TypedHeaps ==
  { Heap(Schema(pa, aa, "None"), Schema(pb, ab, "about B"), Schema(<<P("z", z)>>, <<>>, "None"),
         Schema(<<>>, <<>>, "None"), Parameter("None")) :
      pa \in {<<>>, <<P("leaf", Ptr(LeafSchema)), P("b", RefB)>>} \cup {<<P("x", x)>> : x \in TypedChildren},
      aa \in {<<>>, <<RefA>>, <<Ptr(LeafSchema), RefB>>, <<Ptr(LeafSchema)>>},
      pb \in {<<>>, <<P("y", RefA)>>, <<P("y", Ptr(InlineSchema))>>, <<P("y", Ptr(LeafSchema))>>},
      ab \in {<<>>, <<RefA>>},
      z \in {RefA, RefB, Ptr(LeafSchema)} }
TypedDocument(heap) ==
  [kind |-> "typed", heap |-> heap,
   schemas |-> <<P("A", Ptr(SchemaA)), P("B", Ptr(SchemaB))>>,
   parameters |-> <<P("P", Ptr(ParameterP))>>,
   requestBodies |-> <<>>, responses |-> <<>>]

InitTyped ==
  /\ doc \in {TypedDocument(h) : h \in TypedHeaps}
  /\ moduleSpec = "unbound"
  /\ op = "none"
  /\ arg = NoArg
  /\ ret = TOk(NoneV, doc.heap)

\* resolve_schema(schema, spec, description): the document is mutated in place
ResolveSchema ==
  /\ op = "none"
  /\ \E schema \in TypedChildren, description \in {"None", "given"} :
       LET r == resolve_schema(schema, doc, description, doc.heap, MaxDepth)
       IN  /\ op' = "resolve_schema"
           /\ arg' = [schema |-> schema, description |-> description]
           /\ ret' = r
           /\ doc' = [doc EXCEPT !.heap = r.heap]
  /\ UNCHANGED moduleSpec

\* _resolve_reference(ref, spec)
ResolveReference ==
  /\ op = "none"
  /\ \E schema \in {x \in TypedChildren : IsReference(x)} :
       LET r == Call_resolve_reference(schema.ref, doc, doc.heap, MaxDepth)
       IN  /\ op' = "_resolve_reference"
           /\ arg' = [schema |-> schema]
           /\ ret' = r
           /\ doc' = [doc EXCEPT !.heap = r.heap]
  /\ UNCHANGED moduleSpec

\* the content of a request body: one or two content types, in either order
ContentTypes == {"application/json", "text/plain"}
MediaTypeSchemas ==
  {NoneV, RefB, Ptr(LeafSchema),
   [t |-> "Reference", ref |-> [section |-> "schemas", name |-> "A"], description |-> "the body"]}
Contents ==
  {<<>>}
    \cup { <<P(c, MediaType(s))>> : c \in ContentTypes, s \in MediaTypeSchemas }
    \cup { <<P(cs[1], MediaType(s)), P(cs[2], MediaType(u))>> :
             cs \in {x \in ContentTypes \X ContentTypes : x[1] # x[2]},
             s \in MediaTypeSchemas, u \in MediaTypeSchemas }
RequestBodies == {NoneV} \cup {[kind |-> "RequestBody", content |-> c] : c \in Contents}

\* _resolve_request_body_schema(operation, spec)
ResolveRequestBodySchema ==
  /\ op = "none"
  /\ \E requestBody \in RequestBodies :
       \E r \in {_resolve_request_body_schema([requestBody |-> requestBody], doc, doc.heap, MaxDepth)} :
         /\ op' = "_resolve_request_body_schema"
         /\ arg' = [requestBody |-> requestBody]
         /\ ret' = r
         /\ doc' = [doc EXCEPT !.heap = r.heap]
  /\ UNCHANGED moduleSpec

\* spec._get_referenced_parameter(ref)
GetReferencedParameter ==
  /\ op = "none"
  /\ \E name \in {"P", "A", "Missing"} :
       /\ op' = "_get_referenced_parameter"
       /\ arg' = [schema |-> Reference("parameters", name)]
       /\ ret' = OpenAPISpec_get_referenced_parameter(doc, Reference("parameters", name), doc.heap)
  /\ UNCHANGED <<doc, moduleSpec>>

\* spec.get_referenced_schema(ref)
GetReferencedSchema ==
  /\ op = "none"
  /\ \E name \in {"A", "B", "P", "Missing"} :
       /\ op' = "get_referenced_schema"
       /\ arg' = [schema |-> Reference("schemas", name)]
       /\ ret' = OpenAPISpec_get_referenced_schema(doc, Reference("schemas", name), doc.heap)
  /\ UNCHANGED <<doc, moduleSpec>>

\* the caller takes the outcome
ReturnTyped ==
  /\ op # "none"
  /\ op' = "none"
  /\ arg' = NoArg
  /\ ret' = TOk(NoneV, doc.heap)
  /\ UNCHANGED <<doc, moduleSpec>>

NextTyped ==
  \/ ResolveSchema \/ ResolveReference \/ ResolveRequestBodySchema
  \/ GetReferencedParameter \/ GetReferencedSchema
  \/ ReturnTyped

SpecTyped == InitTyped /\ [][NextTyped]_vars

\* the children of a heap object, and the components they refer to or point at
ChildrenOf(o) ==
  (IF Has(o, "properties") THEN {o.properties[i].def : i \in 1..Len(o.properties)} ELSE {})
    \cup (IF Has(o, "anyOf") THEN SeqSet(o.anyOf) ELSE {})
\* the object a child denotes in document d: none for a dangling reference
Denotes(d, x) ==
  IF ~IsReference(x) THEN {x.id}
  ELSE IF DictHas(d.schemas, RefLast(x.ref)) THEN {DictGet(d.schemas, RefLast(x.ref)).id}
  ELSE {}
RECURSIVE ReachableObjects(_, _, _)
ReachableObjects(d, ids, k) ==
  IF k = 0 THEN ids
  ELSE ReachableObjects(d, ids \cup UNION {UNION {Denotes(d, x) : x \in ChildrenOf(d.heap[i])} : i \in ids},
                        k - 1)
\* some schema of the document reaches itself through properties and anyOf
TypedCyclic(d) ==
  \E i \in DOMAIN d.heap :
    i \in ReachableObjects(d, UNION {Denotes(d, x) : x \in ChildrenOf(d.heap[i])},
                        Cardinality(DOMAIN d.heap))

----------------------------------------------------------------------------
(* parser.py and openapi_utils.py: the operations of a document.  Besides  *)
(* its components a document has the keys servers and paths; a path, a     *)
(* verb and a url are character sequences.                                 *)

\* str.strip(): whitespace removed at both ends
IsSpace(c) == c \in {" ", "\t", "\n"}
RECURSIVE LStripSpace(_)
LStripSpace(str) == IF Len(str) > 0 /\ IsSpace(Head(str)) THEN LStripSpace(Tail(str)) ELSE str
RECURSIVE RStripSpace(_)
RStripSpace(str) ==
  IF Len(str) > 0 /\ IsSpace(str[Len(str)]) THEN RStripSpace(SubSeq(str, 1, Len(str) - 1)) ELSE str
Strip(str) == RStripSpace(LStripSpace(str))

\* models.py: the values of the enums HTTPVerb and APIPropertyLocation
Post == <<"p", "o", "s", "t">>
HTTPVerb ==
  {Get, <<"p", "u", "t">>, Post, <<"d", "e", "l", "e", "t", "e">>, <<"o", "p", "t", "i", "o", "n", "s">>,
   <<"h", "e", "a", "d">>, <<"p", "a", "t", "c", "h">>, <<"t", "r", "a", "c", "e">>}
APIPropertyLocation == {"query", "path", "header", "cookie"}

\* models.py: APIProperty and APIOperation
APIProperty(friendly_name, name, required, type, default, location) ==
  [t |-> "APIProperty", friendly_name |-> friendly_name, name |-> name, required |-> required,
   type |-> type, default |-> default, location |-> location]
APIOperation(operation_id, description, base_url, path, method, properties, request_body) ==
  [t |-> "APIOperation", operation_id |-> operation_id, description |-> description,
   base_url |-> base_url, path |-> path, method |-> method, properties |-> properties,
   request_body |-> request_body]

\* _get_base_url_from_spec (parser.py, lines 44-57).  logging.Logger.warning is
\* the method taken from the class: called with the message alone it raises
\* TypeError (the message is bound to self, msg is missing)
_get_base_url_from_spec(spec) ==
  LET servers == IF Has(spec, "servers") THEN spec.servers ELSE <<>> IN
  IF Len(servers) > 1 THEN Raise("TypeError", <<>>, {})
  ELSE IF Len(servers) = 0 THEN Raise("IndexError", <<>>, {})
  ELSE LET base_url == Strip(IF Has(servers[1], "url") THEN servers[1].url ELSE <<>>)
       IN  IF Len(base_url) = 0
             THEN RaiseMsg("APIParsingError", "No base URL found in OpenAPI Spec", <<>>, {})
             ELSE Ok(StrV(base_url), <<>>, {})

\* OpenAPISpec.base_url (openapi_utils.py, lines 158-161)
OpenAPISpec_base_url(self) ==
  IF Len(self.servers) = 0 THEN Raise("IndexError", <<>>, {})
  ELSE Ok(StrV(self.servers[1].url), <<>>, {})

\* sorted(d.keys()): the names drawn for component parameters, ascending
ParameterNames == <<"Lim", "Off", "Pet">>
Sorted(names) == SelectSeq(ParameterNames, LAMBDA n : n \in names)

\* _create_pydantic_model_from_parameter (parser.py, lines 476-514); the
\* outcome's result is the dict `parameters` after the call
_create_pydantic_model_from_parameter(name, parameter, parameters) ==
  IF ~Has(parameter, "name") \/ ~Has(parameter, "in") THEN Raise("KeyError", parameters, {})
  ELSE IF parameter.in \notin APIPropertyLocation THEN Raise("ValueError", parameters, {})
  ELSE IF ~Has(parameter, "schema") THEN Raise("KeyError", parameters, {})
  ELSE
    LET required == IF Has(parameter, "required") THEN parameter.required ELSE FALSE
        schema == parameter.schema
        default == IF Has(schema, "default") THEN schema.default ELSE NoneV
        made(type_) ==
          Ok(NoneV,
             DictSet(parameters, name,
                     APIProperty(name, parameter.name, required, type_, default, parameter.in)),
             {})
    IN  IF Has(schema, "type")
          THEN IF schema.type \in PRIMITIVE_TYPES THEN made(PrimitiveType(schema.type))
               ELSE Raise("KeyError", parameters, {})
        ELSE IF Has(schema, "ref")
          THEN LET ref_name == schema.ref.name IN
               IF ~Has(parameter, ref_name)
                 THEN RaiseMsg("APIParsingError", "Could not resolve reference", parameters, {})
               ELSE IF ~DictHas(parameters, ref_name) THEN Raise("KeyError", parameters, {})
               \* line 499: the recursive call is made with two arguments
               ELSE IF DictGet(parameters, ref_name) = NoneV THEN Raise("TypeError", parameters, {})
               ELSE made(DictGet(parameters, ref_name))
        ELSE Raise("NotImplementedError", parameters, {})

\* for name in param_names: ...   (parser.py, lines 520-523)
RECURSIVE ParametersLoop(_, _, _)
ParametersLoop(param_names, spec_parameters, parameters) ==
  IF Len(param_names) = 0 THEN Ok(NoneV, parameters, {})
  ELSE
    LET name == Head(param_names)
        param == DictGet(spec_parameters, name)
    IN  IF DictHas(parameters, name) /\ DictGet(parameters, name) # NoneV
          THEN ParametersLoop(Tail(param_names), spec_parameters, parameters)
          ELSE LET r == _create_pydantic_model_from_parameter(name, param, parameters)
               IN  IF r.exc # "none" THEN r
                   ELSE ParametersLoop(Tail(param_names), spec_parameters, r.result)

\* _parse_spec_parameters (parser.py, lines 517-523)
_parse_spec_parameters(spec_parameters, parameters) ==
  ParametersLoop(Sorted(DictKeys(spec_parameters)), spec_parameters, parameters)

\* for param in operation.get("parameters", []): ...   (parser.py, lines 532-554)
RECURSIVE PropertiesOfOperation(_, _, _)
PropertiesOfOperation(params, properties, components) ==
  IF Len(params) = 0 THEN Ok(properties, <<>>, {})
  ELSE
    LET param == Head(params)
        more(property_) == PropertiesOfOperation(Tail(params), Append(properties, property_), components)
    IN  IF Has(param, "ref")
          THEN LET param_name == param.ref.name IN
               IF ~DictHas(components, param_name)
                 THEN RaiseMsg("APIParsingError", "Could not resolve reference", <<>>, {})
                 ELSE more(DictGet(components, param_name))
        ELSE IF ~Has(param, "schema") \/ ~Has(param.schema, "type") THEN Raise("KeyError", <<>>, {})
        ELSE IF param.schema.type \notin PRIMITIVE_TYPES THEN Raise("KeyError", <<>>, {})
        ELSE IF ~Has(param, "name") \/ ~Has(param, "in") THEN Raise("KeyError", <<>>, {})
        ELSE IF param.in \notin APIPropertyLocation THEN Raise("ValueError", <<>>, {})
        ELSE more(APIProperty(param.name, param.name,
                              IF Has(param, "required") THEN param.required ELSE FALSE,
                              PrimitiveType(param.schema.type),
                              IF Has(param.schema, "default") THEN param.schema.default ELSE NoneV,
                              param.in))

\* _extract_api_properties (parser.py, lines 526-555)
_extract_api_properties(operation, components) ==
  PropertiesOfOperation(IF Has(operation, "parameters") THEN operation.parameters ELSE <<>>,
                        <<>>, components)

\* get_full_components_dict (parser.py, lines 558-564): the dict is the
\* outcome's result
get_full_components_dict(spec, g) ==
  LET parameters_into(r) ==
        IF r.exc # "none" THEN r ELSE _parse_spec_parameters(spec.parameters, r.result)
  IN  parameters_into(extract_components(spec, g))

\* spec.get("paths", {}).get(path, {}).get(verb): None when a key is absent
OperationAt(spec, path, verb) ==
  IF ~Has(spec, "paths") \/ ~DictHas(spec.paths, path) THEN NoneV
  ELSE IF ~DictHas(DictGet(spec.paths, path), verb) THEN NoneV
  ELSE DictGet(DictGet(spec.paths, path), verb)

\* parse_path (parser.py, lines 567-594); full_components_dict is <<>> when
\* it is not given (None and the empty dict take the same branch of line 573)
parse_path(spec, path, verb, full_components_dict, g) ==
  LET operation == OperationAt(spec, path, verb) IN
  IF operation = NoneV \/ DOMAIN operation = {} THEN Ok(NoneV, <<>>, {})
  ELSE
    LET with_components(c) ==
          IF c.exc # "none" THEN c
          ELSE
            LET p == _extract_api_properties(operation, c.result) IN
            IF p.exc # "none" THEN p
            ELSE IF verb \notin HTTPVerb THEN Raise("ValueError", <<>>, {})
            ELSE
              LET operation_id ==
                    _get_cleaned_operation_id(
                      IF Has(operation, "operationId") THEN operation.operationId ELSE NoneV, path, verb)
                  b == _get_base_url_from_spec(spec)
              IN  IF b.exc # "none" THEN b
                  \* APIOperation(properties=...): the model validates each
                  \* element of properties as an APIProperty
                  ELSE IF \E i \in 1..Len(p.val) : p.val[i].t # "APIProperty"
                    THEN Raise("ValidationError", <<>>, {})
                  ELSE Ok(APIOperation(StrV(operation_id),
                                       IF Has(operation, "description") THEN operation.description ELSE "",
                                       b.val, path, verb, p.val, NoneV),
                          <<>>, {})
    IN  with_components(IF Len(full_components_dict) = 0
                          THEN get_full_components_dict(spec, g)
                          ELSE Ok(NoneV, full_components_dict, {}))

\* OpenAPISpec._paths_strict and _get_path_strict (openapi_utils.py, lines 50-60)
OpenAPISpec_paths_strict(self) ==
  IF ~Has(self, "paths") \/ Len(self.paths) = 0
    THEN RaiseMsg("ValueError", "No paths found in spec", <<>>, {})
    ELSE Ok(self.paths, <<>>, {})
OpenAPISpec_get_path_strict(self, path) ==
  LET r == OpenAPISpec_paths_strict(self) IN
  IF r.exc # "none" THEN r
  ELSE IF ~DictHas(r.val, path) THEN RaiseMsg("ValueError", "No path found for None", <<>>, {})
  ELSE Ok(DictGet(r.val, path), <<>>, {})

\* OpenAPISpec.get_operation (openapi_utils.py, lines 173-179): the
\* attribute of a PathItem named by an HTTP verb holds an Operation or None
OpenAPISpec_get_operation(self, path, method) ==
  LET r == OpenAPISpec_get_path_strict(self, path) IN
  IF r.exc # "none" THEN r
  ELSE IF method \in HTTPVerb /\ DictHas(r.val, method) THEN Ok(DictGet(r.val, method), <<>>, {})
  ELSE RaiseMsg("ValueError", "No method found for path", <<>>, {})

\* the members of HTTPVerb in the order of their declaration (lines 28-35)
HTTPVerbMembers ==
  <<Get, <<"p", "u", "t">>, Post, <<"d", "e", "l", "e", "t", "e">>, <<"o", "p", "t", "i", "o", "n", "s">>,
    <<"h", "e", "a", "d">>, <<"p", "a", "t", "c", "h">>, <<"t", "r", "a", "c", "e">>>>

\* for method in HTTPVerb: ...   (openapi_utils.py, lines 167-170)
RECURSIVE MethodsLoop(_, _, _)
MethodsLoop(path_item, methods, results) ==
  IF Len(methods) = 0 THEN results
  ELSE MethodsLoop(path_item, Tail(methods),
                   IF DictHas(path_item, Head(methods)) THEN Append(results, Head(methods)) ELSE results)

\* not the code: the methods are listed as the path item holds them
OpenAPISpec_get_methods_for_path_as_held(self, path) ==
  LET r == OpenAPISpec_get_path_strict(self, path) IN
  IF r.exc # "none" THEN r
  ELSE Ok(SelectSeq(KeySeq(r.val), LAMBDA m : m \in HTTPVerb), <<>>, {})

\* OpenAPISpec.get_methods_for_path (openapi_utils.py, lines 163-171)
OpenAPISpec_get_methods_for_path(self, path) ==
  LET r == OpenAPISpec_get_path_strict(self, path) IN
  IF r.exc # "none" THEN r
  ELSE Ok(MethodsLoop(r.val, HTTPVerbMembers, <<>>), <<>>, {})

\* Documents with operations: the Pet Store example and its variations
ApiExampleCom ==
  <<"h", "t", "t", "p", "s", ":", "/", "/", "a", "p", "i", ".", "e", "x", "a", "m", "p", "l", "e", ".", "c", "o", "m">>
OtherUrl == <<"h", "t", "t", "p", ":", "/", "/", "b">>
Server(url) == [url |-> url]
ServerLists ==
  { <<>>, <<Server(ApiExampleCom)>>, <<Server(ApiExampleCom), Server(OtherUrl)>>,
    <<Server(<<" ">> \o OtherUrl \o <<" ", "\n">>)>>, <<Server(<<" ">>)>>, <<[description |-> "no url"]>> }

PetsPath == <<"/", "p", "e", "t", "s", "/", "{", "p", "e", "t", "I", "d", "}">>
PetId == [name |-> "petId", in |-> "path", required |-> TRUE, schema |-> String]
Limit == [name |-> "limit", in |-> "query", schema |-> Integer]
Ids == [name |-> "ids", in |-> "query", required |-> FALSE, schema |-> Arr(String)]
InBody == [name |-> "payload", in |-> "body", schema |-> String]
BySchema == [name |-> "pet", in |-> "query", schema |-> Ref("Pet")]
ParameterRef(n) == [ref |-> [section |-> "parameters", name |-> n]]

Operation(parameters) == [parameters |-> parameters]
EmptyOperation == [k \in {} |-> NoneV]
Operations ==
  { Operation(ps) : ps \in {<<PetId, Limit>>, <<Limit, PetId>>, <<PetId, Ids>>, <<InBody>>, <<BySchema>>,
                            <<PetId, ParameterRef("Lim")>>, <<ParameterRef("Off")>>,
                            <<Limit, Limit>>, <<Limit, ParameterRef("Lim")>>, <<ParameterRef("Pet")>>} }
    \cup { [operationId |-> StrV(<<"g", "e", "t", "-", "p", "e", "t">>), description |-> "Find a pet"],
           EmptyOperation }
PathItems ==
  { <<P(Get, o)>> : o \in Operations } \cup { <<P(Post, EmptyOperation), P(Get, Operation(<<PetId, Limit>>))>> }
\* a component the operations do not name, with a reference to a component
\* the document does not have
Dangling == Obj(<<P("m", Ref("Missing"))>>, <<>>)
ComponentSchemas ==
  { <<>>, <<P("Pet", ObjP)>>, <<P("Pet", Integer)>>, <<P("Unused", Dangling)>> }
ComponentParameters ==
  { <<>>, <<P("Lim", Limit)>>, <<P("Off", BySchema), P("Lim", Limit)>>, <<P("Pet", Limit)>> }

ApiDocument(schemas, parameters, paths) ==
  [kind |-> "doc", schemas |-> schemas, parameters |-> parameters, paths |-> paths]
\* the document with the key servers
WithServers(d, servers) ==
  [k \in DOMAIN d \cup {"servers"} |-> IF k = "servers" THEN servers ELSE d[k]]
ApiDocuments ==
  LET bare == { ApiDocument(s, ps, <<P(PetsPath, i)>>) :
                  s \in ComponentSchemas, ps \in ComponentParameters, i \in PathItems }
                \cup { ApiDocument(<<>>, <<>>, <<>>) }
  IN  bare \cup { WithServers(d, ss) : d \in bare, ss \in ServerLists }

QueryPaths == {PetsPath, UsersIdPath}
QueryVerbs == {Get, Post, <<"d", "e", "l", "e", "t", "e">>}

\* the servers of the document, none when the key is absent
ServersOf(d) == IF Has(d, "servers") THEN d.servers ELSE <<>>
\* the document declares an operation for the path and the verb
Declares(d, path, verb) == OperationAt(d, path, verb) # NoneV

InitPaths ==
  /\ doc \in ApiDocuments
  /\ moduleSpec \in Bindings
  /\ op = "none"
  /\ arg = NoArg
  /\ ret = Idle

\* parse_path(spec, path, verb)
ParsePath ==
  /\ op = "none"
  /\ \E path \in QueryPaths, verb \in QueryVerbs :
       /\ op' = "parse_path"
       /\ arg' = [path |-> path, verb |-> verb, full_components_dict |-> <<>>]
       /\ ret' = parse_path(doc, path, verb, <<>>, Global)
  /\ UNCHANGED <<doc, moduleSpec>>

\* full_components_dict = get_full_components_dict(spec);
\* parse_path(spec, path, verb, full_components_dict)   (as in lines 605-612)
ParsePathWithComponents ==
  /\ op = "none"
  /\ \E c \in {get_full_components_dict(doc, Global)} :
       /\ c.exc = "none"
       /\ \E path \in QueryPaths, verb \in QueryVerbs :
            /\ op' = "parse_path"
            /\ arg' = [path |-> path, verb |-> verb, full_components_dict |-> c.result]
            /\ ret' = parse_path(doc, path, verb, c.result, Global)
  /\ UNCHANGED <<doc, moduleSpec>>

\* full_components_dict = get_full_components_dict(spec);
\* _extract_api_properties(operation, full_components_dict)
\* (as in lines 573-578)
ExtractApiProperties ==
  /\ op = "none"
  /\ \E c \in {get_full_components_dict(doc, Global)} :
       /\ c.exc = "none"
       /\ \E path \in QueryPaths, verb \in QueryVerbs :
            /\ Declares(doc, path, verb)
            /\ op' = "_extract_api_properties"
            /\ arg' = [path |-> path, verb |-> verb, full_components_dict |-> c.result]
            /\ ret' = _extract_api_properties(OperationAt(doc, path, verb), c.result)
  /\ UNCHANGED <<doc, moduleSpec>>

\* get_full_components_dict(spec)
GetFullComponentsDict ==
  /\ op = "none"
  /\ op' = "get_full_components_dict"
  /\ arg' = NoArg
  /\ ret' = get_full_components_dict(doc, Global)
  /\ UNCHANGED <<doc, moduleSpec>>

\* _get_base_url_from_spec(spec)
GetBaseUrlFromSpec ==
  /\ op = "none"
  /\ op' = "_get_base_url_from_spec"
  /\ arg' = NoArg
  /\ ret' = _get_base_url_from_spec(doc)
  /\ UNCHANGED <<doc, moduleSpec>>

\* the document was parsed into an OpenAPISpec: servers is a list of Server
\* objects, each with its url
IsOpenAPISpec(d) ==
  /\ Has(d, "servers")
  /\ \A i \in 1..Len(d.servers) : Has(d.servers[i], "url")

\* spec.base_url
BaseUrl ==
  /\ op = "none"
  /\ IsOpenAPISpec(doc)
  /\ op' = "base_url"
  /\ arg' = NoArg
  /\ ret' = OpenAPISpec_base_url(doc)
  /\ UNCHANGED <<doc, moduleSpec>>

\* spec.get_operation(path, method)
GetOperation ==
  /\ op = "none"
  /\ IsOpenAPISpec(doc)
  /\ \E path \in QueryPaths, method \in QueryVerbs :
       /\ op' = "get_operation"
       /\ arg' = [path |-> path, verb |-> method]
       /\ ret' = OpenAPISpec_get_operation(doc, path, method)
  /\ UNCHANGED <<doc, moduleSpec>>

\* spec.get_methods_for_path(path)
GetMethodsForPath ==
  /\ op = "none"
  /\ IsOpenAPISpec(doc)
  /\ \E path \in QueryPaths :
       /\ op' = "get_methods_for_path"
       /\ arg' = [path |-> path]
       /\ ret' = OpenAPISpec_get_methods_for_path(doc, path)
  /\ UNCHANGED <<doc, moduleSpec>>

\* spec._get_path_strict(path)
GetPathStrict ==
  /\ op = "none"
  /\ IsOpenAPISpec(doc)
  /\ \E path \in QueryPaths :
       /\ op' = "_get_path_strict"
       /\ arg' = [path |-> path]
       /\ ret' = OpenAPISpec_get_path_strict(doc, path)
  /\ UNCHANGED <<doc, moduleSpec>>

NextPaths ==
  \/ ParsePath \/ ParsePathWithComponents \/ ExtractApiProperties \/ GetFullComponentsDict
  \/ GetBaseUrlFromSpec
  \/ BaseUrl \/ GetOperation \/ GetMethodsForPath \/ GetPathStrict \/ Return

SpecPaths == InitPaths /\ [][NextPaths]_vars

----------------------------------------------------------------------------
(* OpenAPISpec.parse_obj and _OpenAPIModel.parse_obj: lenient validation.  *)
(* The raw document is a dict; of the validation of the library only the   *)
(* locations of the errors it reports are read (error["loc"]).  A location *)
(* is a sequence of steps, a key of a dict or an index of a list.          *)

Key(k) == [key |-> k]
Index(i) == [index |-> i]

\* super().parse_obj(obj) raising ValidationError e: e.errors(), in the order
\* of the fields.  info is required and has the required field title; an
\* entry of servers or a path item is reported when it is invalid
FieldErrors(obj) ==
  (IF ~Has(obj, "info") THEN <<<<Key("info")>>>>
   ELSE IF ~Has(obj.info, "title") \/ obj.info.title = "invalid" THEN <<<<Key("info"), Key("title")>>>>
   ELSE <<>>)
  \o (IF Has(obj, "externalDocs") /\ obj.externalDocs = "invalid" THEN <<<<Key("externalDocs")>>>> ELSE <<>>)
ServerErrors(obj) ==
  IF ~Has(obj, "servers") THEN <<>>
  ELSE LET bad == SelectSeq([i \in 1..Len(obj.servers) |-> i], LAMBDA i : obj.servers[i] = "invalid")
       IN  [n \in 1..Len(bad) |-> <<Key("servers"), Index(bad[n] - 1)>>]
PathNames == <<"/a", "/b">>
PathErrors(obj) ==
  IF ~Has(obj, "paths") THEN <<>>
  ELSE LET bad == SelectSeq(PathNames, LAMBDA p : Has(obj.paths, p) /\ obj.paths[p] = "invalid")
       IN  [n \in 1..Len(bad) |-> <<Key("paths"), Key(bad[n])>>]
Errors(obj) == FieldErrors(obj) \o ServerErrors(obj) \o PathErrors(obj)

\* d.pop(k, None) on a dict
Without(d, k) == [x \in DOMAIN d \ {k} |-> d[x]]

\* item = new_obj; for key in keys[:-1]: item = item[key]; item.pop(keys[-1], None)
\* (lines 121-126): the outcome is [exc, obj], obj being new_obj after the pop
RECURSIVE PopAt(_, _)
PopAt(item, keys) ==
  LET step == Head(keys) IN
  IF Len(keys) = 1
    THEN \* list.pop takes one argument: list.pop(i, None) raises TypeError
         IF Has(step, "index") THEN [exc |-> "TypeError", obj |-> item]
         ELSE [exc |-> "none", obj |-> IF Has(item, step.key) THEN Without(item, step.key) ELSE item]
  ELSE IF Has(step, "index")
    THEN IF step.index + 1 > Len(item) THEN [exc |-> "IndexError", obj |-> item]
         ELSE LET r == PopAt(item[step.index + 1], Tail(keys))
              IN  [exc |-> r.exc, obj |-> [item EXCEPT ![step.index + 1] = r.obj]]
  ELSE IF ~Has(item, step.key) THEN [exc |-> "KeyError", obj |-> item]
  ELSE LET r == PopAt(item[step.key], Tail(keys))
       IN  [exc |-> r.exc, obj |-> [item EXCEPT ![step.key] = r.obj]]

\* for error in e.errors(): ...   (lines 120-126)
RECURSIVE StripErrors(_, _)
StripErrors(new_obj, errors) ==
  IF Len(errors) = 0 THEN [exc |-> "none", obj |-> new_obj]
  ELSE LET r == PopAt(new_obj, Head(errors))
       IN  IF r.exc # "none" THEN r ELSE StripErrors(r.obj, Tail(errors))

\* parse_obj (openapi_utils.py, lines 113-127; typed_parser.py, lines 32-46);
\* passes counts the validations made, the outcome is [exc, val, passes]
RECURSIVE parse_obj(_, _, _)
parse_obj(obj, fuel, passes) ==
  IF fuel = 0 THEN [exc |-> "RecursionError", val |-> NoneV, passes |-> passes]
  ELSE IF Len(Errors(obj)) = 0 THEN [exc |-> "none", val |-> obj, passes |-> passes + 1]
  ELSE LET r == StripErrors(obj, Errors(obj))
       IN  IF r.exc # "none" THEN [exc |-> r.exc, val |-> NoneV, passes |-> passes + 1]
           ELSE parse_obj(r.obj, fuel - 1, passes + 1)

\* Raw documents
Infos == {[title |-> "valid"], [title |-> "invalid"], [version |-> "valid"]}
RawServers == {<<>>, <<"valid">>, <<"invalid">>, <<"valid", "invalid">>}
RawPaths ==
  { ("/a" :> a) : a \in {"valid", "invalid"} }
    \cup { ("/a" :> a) @@ ("/b" :> b) : a \in {"valid", "invalid"}, b \in {"valid", "invalid"} }
\* the document d with the key k holding v
WithKey(d, k, v) == [x \in DOMAIN d \cup {k} |-> IF x = k THEN v ELSE d[x]]
RawDocuments ==
  LET base == {[openapi |-> "valid"]}
      a == base \cup {WithKey(d, "info", i) : d \in base, i \in Infos}
      b == a \cup {WithKey(d, "externalDocs", x) : d \in a, x \in {"valid", "invalid"}}
      c == b \cup {WithKey(d, "servers", s) : d \in b, s \in RawServers}
  IN  c \cup {WithKey(d, "paths", p) : d \in c, p \in RawPaths}

InitLenient ==
  /\ doc \in RawDocuments
  /\ moduleSpec = "unbound"
  /\ op = "none"
  /\ arg = NoArg
  /\ ret = Idle

\* OpenAPISpec.parse_obj(obj)
ParseObj ==
  /\ op = "none"
  /\ op' = "OpenAPISpec.parse_obj"
  /\ arg' = NoArg
  /\ ret' = parse_obj(doc, MaxDepth, 0)
  /\ UNCHANGED <<doc, moduleSpec>>

\* _OpenAPIModel.parse_obj(obj)
ModelParseObj ==
  /\ op = "none"
  /\ op' = "_OpenAPIModel.parse_obj"
  /\ arg' = NoArg
  /\ ret' = parse_obj(doc, MaxDepth, 0)
  /\ UNCHANGED <<doc, moduleSpec>>

\* the locations a validation of obj can report: the step before the last
\* one leads to a dict or a list of obj, the last one names a field or an
\* entry, present or (for a required field) absent
Locations(obj) ==
  {<<Key("info")>>, <<Key("externalDocs")>>, <<Key("servers")>>, <<Key("paths")>>}
    \cup (IF Has(obj, "info") THEN {<<Key("info"), Key("title")>>, <<Key("info"), Key("version")>>} ELSE {})
    \cup (IF Has(obj, "servers") THEN {<<Key("servers"), Index(i - 1)>> : i \in 1..Len(obj.servers)} ELSE {})
    \cup (IF Has(obj, "paths") THEN {<<Key("paths"), Key(p)>> : p \in DOMAIN obj.paths} ELSE {})

\* the except block of parse_obj up to the retry (lines 120-126): new_obj is
\* the deep copy of obj, errors is e.errors() as the validation reported it
RepairPass ==
  /\ op = "none"
  /\ \E errors \in {<<a>> : a \in Locations(doc)} \cup {<<a, b>> : a \in Locations(doc), b \in Locations(doc)} :
       /\ op' = "parse_obj:except"
       /\ arg' = [errors |-> errors]
       /\ ret' = [exc |-> StripErrors(doc, errors).exc, val |-> StripErrors(doc, errors).obj, passes |-> 1]
  /\ UNCHANGED <<doc, moduleSpec>>

NextLenient == ParseObj \/ ModelParseObj \/ RepairPass \/ Return

SpecLenient == InitLenient /\ [][NextLenient]_vars

----------------------------------------------------------------------------
(* extract_components (parser.py, lines 254-261), one iteration of its     *)
(* loop at a time.  arg holds the components still to visit, the name of   *)
(* the component visited last and the dict `result` as it was before that  *)
(* visit; ret.result is the dict `result` now.                             *)

Visiting(todo, model_name, previous) ==
  [todo |-> todo, model_name |-> model_name, previous |-> previous]

InitRun ==
  /\ doc \in Documents
  /\ moduleSpec \in Bindings
  /\ op = "none"
  /\ arg = NoArg
  /\ ret = Idle

\* result = {}   (line 257)
EnterExtractComponents ==
  /\ op = "none"
  /\ op' = "extract_components:for"
  /\ arg' = Visiting(doc.schemas, "", <<>>)
  /\ ret' = Ok(NoneV, <<>>, {})
  /\ UNCHANGED <<doc, moduleSpec>>

\* result[model_name] = _create_component_model(model_name, model_def, result)
\* (lines 258-259)
VisitComponent ==
  /\ op = "extract_components:for"
  /\ ret.exc = "none"
  /\ Len(arg.todo) > 0
  /\ \E r \in {Call_create_component_model(Head(arg.todo).name, Head(arg.todo).def,
                                           ret.result, {}, Global, MaxDepth)} :
       ret' = IF r.exc # "none" THEN r
              ELSE Ok(NoneV, DictSet(r.result, Head(arg.todo).name, r.val), {})
  /\ arg' = Visiting(Tail(arg.todo), Head(arg.todo).name, ret.result)
  /\ UNCHANGED <<op, doc, moduleSpec>>

\* return result (line 261), or the exception leaves the loop
LeaveExtractComponents ==
  /\ op = "extract_components:for"
  /\ ret.exc # "none" \/ Len(arg.todo) = 0
  /\ op' = "none"
  /\ arg' = NoArg
  /\ ret' = Idle
  /\ UNCHANGED <<doc, moduleSpec>>

NextRun == EnterExtractComponents \/ VisitComponent \/ LeaveExtractComponents

SpecRun == InitRun /\ [][NextRun]_vars

\* the loop taken in steps ends as extract_components does
RunAgrees ==
  (op = "extract_components:for" /\ (ret.exc # "none" \/ Len(arg.todo) = 0))
    => /\ ret.exc = extract_components(doc, Global).exc
       /\ ret.result = extract_components(doc, Global).result

----------------------------------------------------------------------------
(* openapi_utils.py: following component references to their root, and the *)
(* parameters of an operation.  components.parameters and                  *)
(* components.schemas map a name to an object or to a Reference; the while *)
(* loops of _get_root_referenced_parameter and _get_root_referenced_schema *)
(* run one iteration a step.                                               *)

MaxChain == 3

\* a Parameter with its name and its location (param_in), and a Schema
ParameterIn(name, param_in) == [t |-> "Parameter", name |-> name, param_in |-> param_in]
LimitParameter == ParameterIn("limit", "query")
IdParameter == ParameterIn("id", "path")
SchemaOfType(type) == [t |-> "Schema", type |-> type]
TypedOperation(parameters) == [t |-> "Operation", parameters |-> parameters]
\* a list of objects
ListV(items) == [t |-> "list", items |-> items]

\* self._get_referenced_parameter(ref) or self.get_referenced_schema(ref)
Referenced(self, section, ref) ==
  IF section = "parameters" THEN OpenAPISpec_get_referenced_parameter(self, ref, <<>>)
  ELSE OpenAPISpec_get_referenced_schema(self, ref, <<>>)

\* while isinstance(parameter, Reference):
\*     parameter = self._get_referenced_parameter(parameter)
\* (openapi_utils.py, lines 95-96 and 109-110), `steps` iterations of it at
\* most; r is the outcome that holds the variable of the loop
RECURSIVE WhileReference(_, _, _, _)
WhileReference(self, section, r, steps) ==
  IF r.exc # "none" \/ ~IsReference(r.val) \/ steps = 0 THEN r
  ELSE WhileReference(self, section, Referenced(self, section, r.val), steps - 1)

\* the loop has ended: an exception, or the variable no longer is a Reference
Ended(r) == r.exc # "none" \/ ~IsReference(r.val)

\* _get_root_referenced_parameter (openapi_utils.py, lines 92-97) with the
\* loop run for MaxChain iterations; the outcome has not Ended when the loop
\* still runs after them
OpenAPISpec_get_root_referenced_parameter(self, ref) ==
  WhileReference(self, "parameters", Referenced(self, "parameters", ref), MaxChain)

\* for parameter in operation.parameters: ...   (openapi_utils.py, lines 185-188)
RECURSIVE OperationParametersLoop(_, _, _)
OperationParametersLoop(self, todo, parameters) ==
  IF Len(todo) = 0 THEN TOk(ListV(parameters), <<>>)
  ELSE IF IsReference(Head(todo))
    THEN LET root == OpenAPISpec_get_root_referenced_parameter(self, Head(todo))
         IN  IF root.exc # "none" \/ ~Ended(root) THEN root
             ELSE OperationParametersLoop(self, Tail(todo), Append(parameters, root.val))
  ELSE OperationParametersLoop(self, Tail(todo), Append(parameters, Head(todo)))

\* OpenAPISpec.get_parameters_for_operation (openapi_utils.py, lines 181-189);
\* the field parameters is absent when operation.parameters is None
OpenAPISpec_get_parameters_for_operation(self, operation) ==
  IF ~Has(operation, "parameters") THEN TOk(ListV(<<>>), <<>>)
  ELSE OperationParametersLoop(self, operation.parameters, <<>>)

\* Documents: component parameters and component schemas with a chain of
\* references, a cycle of two, a self-reference and a reference to nothing
ReferenceChains(section, object, other) ==
  { <<>>,
    <<P("P1", object)>>,
    <<P("P1", Reference(section, "P2")), P("P2", object)>>,
    <<P("P1", Reference(section, "P2")), P("P2", Reference(section, "P3")), P("P3", other)>>,
    <<P("P1", Reference(section, "P2")), P("P2", Reference(section, "P1"))>>,
    <<P("P1", Reference(section, "P1")), P("P2", object)>>,
    <<P("P1", Reference(section, "Missing")), P("P2", other)>> }
ReferenceDocuments ==
  { [kind |-> "OpenAPISpec", parameters |-> ps, schemas |-> ss] :
      ps \in ReferenceChains("parameters", LimitParameter, IdParameter),
      ss \in ReferenceChains("schemas", SchemaOfType("string"), SchemaOfType("integer")) }
ReferenceNames == {"P1", "P2", "P3", "Missing"}
TypedOperations ==
  { [t |-> "Operation"] } \cup
  { TypedOperation(ps) :
      ps \in { <<>>, <<LimitParameter>>, <<IdParameter, LimitParameter>>, <<LimitParameter, LimitParameter>>,
               <<LimitParameter, Reference("parameters", "P1")>>,
               <<Reference("parameters", "P1"), Reference("parameters", "P1")>>,
               <<IdParameter, Reference("parameters", "P2")>>,
               <<Reference("parameters", "P3"), Reference("parameters", "Missing")>> } }

InitRefs ==
  /\ doc \in ReferenceDocuments
  /\ moduleSpec = "unbound"
  /\ op = "none"
  /\ arg = NoArg
  /\ ret = TOk(NoneV, <<>>)

\* spec._get_root_referenced_parameter(ref), up to the loop:
\* parameter = self._get_referenced_parameter(ref)   (line 94)
EnterRootReferencedParameter ==
  /\ op = "none"
  /\ \E name \in ReferenceNames :
       /\ op' = "_get_root_referenced_parameter"
       /\ arg' = [section |-> "parameters", ref |-> Reference("parameters", name)]
       /\ ret' = Referenced(doc, "parameters", Reference("parameters", name))
  /\ UNCHANGED <<doc, moduleSpec>>

\* spec._get_root_referenced_schema(ref), up to the loop:
\* schema = self.get_referenced_schema(ref)   (line 108)
EnterRootReferencedSchema ==
  /\ op = "none"
  /\ \E name \in ReferenceNames :
       /\ op' = "_get_root_referenced_schema"
       /\ arg' = [section |-> "schemas", ref |-> Reference("schemas", name)]
       /\ ret' = Referenced(doc, "schemas", Reference("schemas", name))
  /\ UNCHANGED <<doc, moduleSpec>>

\* one iteration of the while loop (lines 95-96 and 109-110)
FollowReference ==
  /\ op \in {"_get_root_referenced_parameter", "_get_root_referenced_schema"}
  /\ ~Ended(ret)
  /\ ret' = WhileReference(doc, arg.section, ret, 1)
  /\ UNCHANGED <<doc, moduleSpec, op, arg>>

\* return parameter (lines 97 and 111), or the exception leaves the call
ReturnRoot ==
  /\ op \in {"_get_root_referenced_parameter", "_get_root_referenced_schema"}
  /\ Ended(ret)
  /\ op' = "none"
  /\ arg' = NoArg
  /\ ret' = TOk(NoneV, <<>>)
  /\ UNCHANGED <<doc, moduleSpec>>

\* spec.get_parameters_for_operation(operation): the call returns or raises
\* when its loops end
GetParametersForOperation ==
  /\ op = "none"
  /\ \E operation \in TypedOperations :
       /\ Ended(OpenAPISpec_get_parameters_for_operation(doc, operation))
       /\ op' = "get_parameters_for_operation"
       /\ arg' = operation
       /\ ret' = OpenAPISpec_get_parameters_for_operation(doc, operation)
  /\ UNCHANGED <<doc, moduleSpec>>

\* the caller takes the parameters
ReturnParameters ==
  /\ op = "get_parameters_for_operation"
  /\ op' = "none"
  /\ arg' = NoArg
  /\ ret' = TOk(NoneV, <<>>)
  /\ UNCHANGED <<doc, moduleSpec>>

NextRefs ==
  \/ EnterRootReferencedParameter \/ EnterRootReferencedSchema \/ FollowReference \/ ReturnRoot
  \/ GetParametersForOperation \/ ReturnParameters

SpecRefs == InitRefs /\ [][NextRefs]_vars

\* the interpreter runs the statement that is next: a call that was entered
\* goes on until it returns
SpecRefsFair == SpecRefs /\ WF_vars(FollowReference) /\ WF_vars(ReturnRoot)

----------------------------------------------------------------------------
(* Vocabulary of the properties *)

Compositions == {"allOf", "oneOf", "anyOf"}

\* the component names a schema refers to, at any depth
RECURSIVE RefNames(_)
RefNames(s) ==
  (IF Has(s, "ref") THEN {s.ref.name} ELSE {})
    \cup UNION {RefNames(PropertiesOf(s)[i].def) : i \in 1..Len(PropertiesOf(s))}
    \cup (IF Has(s, "items") THEN RefNames(s.items) ELSE {})
    \cup UNION {UNION {RefNames(s[k][i]) : i \in 1..Len(s[k])} : k \in Compositions \cap DOMAIN s}

RECURSIVE ReachableFrom(_, _, _)
ReachableFrom(d, names, k) ==
  IF k = 0 THEN names
  ELSE ReachableFrom(d, names \cup UNION {RefNames(DictGet(d.schemas, n)) : n \in names \cap DictKeys(d.schemas)},
                     k - 1)

\* the document has a reference cycle: some component reaches itself
Cyclic(d) ==
  \E n \in DictKeys(d.schemas) :
    n \in ReachableFrom(d, RefNames(DictGet(d.schemas, n)), Len(d.schemas))

\* a bare name (or the forward reference typing.Union makes of one) occurs in a value
RECURSIVE ContainsSentinel(_)
ContainsSentinel(v) ==
  CASE v.t \in {"str", "ForwardRef"} -> TRUE
    [] v.t = "model" -> \E i \in 1..Len(v.fields) : ContainsSentinel(v.fields[i].def)
    [] v.t = "field" -> ContainsSentinel(v.type)
    [] v.t = "list" -> ContainsSentinel(v.item)
    [] v.t = "Union" -> \E i \in 1..Len(v.members) : ContainsSentinel(v.members[i])
    [] OTHER -> FALSE

Category == Obj(<<P("name", String), P("children", Arr(Ref("A")))>>, <<"name">>)
CategoryResolved ==
  [t |-> "model", name |-> "A",
   fields |-> <<P("name", ModelField(Prim("str"), "...")),
                P("children", ModelField(ListOf(StrV("A")), "None"))>>]

ComponentIs(n, def) == DictHas(doc.schemas, n) /\ DictGet(doc.schemas, n) = def


\* the call was one of the two allOf / oneOf / anyOf handlers, on a composition
Handlers == {"_get_pydantic_type", "_create_component_model"}
HandlerOn(key) == op \in Handlers /\ Has(arg, key)

\* a branch resolved on its own against the document
BranchOutcome(s) == Call_get_pydantic_type(s, <<>>, doc, {}, Global, MaxDepth)

\* the schema a branch stands for: itself, or the component it refers to
Referent(s) ==
  IF ~Has(s, "ref") THEN s
  ELSE IF RefLookupError(s, doc) = "none" THEN RefLookup(s, doc)
  ELSE [missing |-> TRUE]
ObjectBranch(s) == TypeOf(Referent(s)) = "object" /\ Has(Referent(s), "properties")
PrimitiveBranch(s) == TypeOf(Referent(s)) \in {"string", "integer", "number", "boolean"}

\* the names declared by the branches, in the order of first declaration
RECURSIVE DeclaredNames(_)
DeclaredNames(bs) ==
  IF Len(bs) = 0 THEN <<>>
  ELSE LET before == DeclaredNames(SubSeq(bs, 1, Len(bs) - 1))
           seenNames == SeqSet(before)
       IN  before \o SelectSeq(KeySeq(PropertiesOf(bs[Len(bs)])), LAMBDA n : n \notin seenNames)

\* the merge a handler accumulates over the branches of an allOf
Merge(handler, bs) ==
  IF handler = "_get_pydantic_type"
    THEN SchemaAllOf(bs, <<>>, <<>>, <<>>, <<>>, doc, Global, MaxDepth)
    ELSE ComponentAllOf(bs, <<>>, <<>>, <<>>, {}, Global, MaxDepth)
\* a merge as a branch of a further allOf
MergedBranch(handler, bs) == allof_def(Merge(handler, bs).properties, Merge(handler, bs).required)
\* the outcome of a handler on a schema
Handle(handler, schema) ==
  IF handler = "_get_pydantic_type"
    THEN Call_get_pydantic_type(schema, <<>>, doc, {}, Global, MaxDepth)
    ELSE Call_create_component_model("Top", schema, <<>>, {}, Global, MaxDepth)

----------------------------------------------------------------------------
(* Claims *)

C2_TypedResolutionTerminates ==
  op \in {"resolve_schema", "_resolve_reference"} => ret.exc # "RecursionError"

C5_SentinelOnlyOnCycle ==
  (op = "extract_components" /\ ret.exc = "none" /\ ~Cyclic(doc))
    => \A i \in 1..Len(ret.result) : ~ContainsSentinel(ret.result[i].def)


\* C6: for an allOf composition whose branches are all object branches
\* (inline object schemas or $refs to object components) either handler
\* returns a model whose property names are the union of the branches'
\* property names and whose required names are the union of the branches'
\* required names.
C6_AllOfUnion ==
  (HandlerOn("allOf") /\ \A i \in 1..Len(arg.allOf) : ObjectBranch(arg.allOf[i]))
    => /\ ret.exc = "none"
       /\ ret.val.t = "model"
       /\ DictKeys(ret.val.fields)
            = UNION {DictKeys(PropertiesOf(Referent(arg.allOf[i]))) : i \in 1..Len(arg.allOf)}
       /\ SeqSet(RequiredFields(ret.val.fields))
            = UNION {SeqSet(RequiredOf(Referent(arg.allOf[i]))) : i \in 1..Len(arg.allOf)}

\* C7: an allOf composition of one primitive branch (inline or a $ref to a
\* primitive component) and one object branch, in either order, fails in
\* both handlers with APIParsingError "Cannot mix primitives and
\* non-primitives".
C7_MixedAllOfRejected ==
  (/\ HandlerOn("allOf")
   /\ Len(arg.allOf) = 2
   /\ \E i, j \in 1..2 : i # j /\ PrimitiveBranch(arg.allOf[i]) /\ ObjectBranch(arg.allOf[j]))
    => /\ ret.exc = "APIParsingError"
       /\ ret.val = StrV("Cannot mix primitives and non-primitives in allOf")

C9_AlternativePerBranch ==
  LET key == IF Has(arg, "oneOf") THEN "oneOf" ELSE "anyOf"
      resolved == {UnionParam(BranchOutcome(arg[key][i]).val) : i \in 1..Len(arg[key])}
  IN  (/\ op \in Handlers
       /\ Has(arg, "oneOf") \/ Has(arg, "anyOf")
       /\ \A i \in 1..Len(arg[key]) : /\ BranchOutcome(arg[key][i]).exc = "none"
                                      /\ BranchOutcome(arg[key][i]).val.t # "Union")
        => /\ ret.exc = "none"
           /\ IF Cardinality(resolved) = 1
                THEN UnionParam(ret.val) \in resolved
                ELSE /\ ret.val.t = "Union"
                     /\ Len(ret.val.members) = Cardinality(resolved)
                     /\ SeqSet(ret.val.members) = resolved

\* C10, read literally: without an explicit operationId the derived id is the path
\* with every non-alphanumeric character replaced by "_" followed by the
\* uppercased verb, and /users/{id} with get gives users__id__GET.
C10_DerivedIdAsStated ==
  Derived
    => /\ ret.val.v = SubNonAlnum(arg.path) \o Upper(arg.verb)
       /\ (arg.path = UsersIdPath /\ arg.verb = Get) => ret.val.v = <<"u", "s", "e", "r", "s", "_", "_", "i", "d", "_", "_", "G", "E", "T">>

\* C10, as the code derives it: without an explicit operationId the derived id is the path
\* without its leading "/" characters, every remaining non-alphanumeric
\* character replaced by "_" (letters and digits kept), directly followed by
\* the uppercased verb; /users/{id} with get gives users__id_GET.
C10_DerivedId ==
  Derived
    => LET k == LeadingSlashes(arg.path)
           n == Len(arg.path) - k
       IN  /\ Len(ret.val.v) = n + Len(arg.verb)
           /\ \A i \in 1..n :
                ret.val.v[i] = IF IsAlnum(arg.path[k + i]) THEN arg.path[k + i] ELSE "_"
           /\ \A j \in 1..Len(arg.verb) : ret.val.v[n + j] = UpperChar(arg.verb[j])
           /\ (arg.path = UsersIdPath /\ arg.verb = Get) => ret.val.v = <<"u", "s", "e", "r", "s", "_", "_", "i", "d", "_", "G", "E", "T">>

\* C10 witness: the id of get on /users/{id} was derived
C10_Witness ==
  /\ Derived
  /\ arg.path = UsersIdPath
  /\ arg.verb = Get
  /\ ret.val.v = <<"u", "s", "e", "r", "s", "_", "_", "i", "d", "_", "G", "E", "T">>

\* C11: operation id derivation is deterministic and injective.  Deriving
\* again for the same (path, verb) gives the id returned, and no other
\* (path, verb) pair without an explicit operationId derives that id.
C11_DerivedIdInjective ==
  Derived
    => /\ ret.val.v = _get_cleaned_operation_id(NoneV, arg.path, arg.verb)
       /\ ret.val.v = get_cleaned_operation_id([operationId |-> NoneV], arg.path, arg.verb)
       /\ \A path \in Paths, verb \in Verbs :
            <<path, verb>> # <<arg.path, arg.verb>>
              => /\ _get_cleaned_operation_id(NoneV, path, verb) # ret.val.v
                 /\ get_cleaned_operation_id([operationId |-> NoneV], path, verb) # ret.val.v

\* C12: every operation id returned, derived or explicit, is sanitized: it
\* has the length of its input and holds only letters, digits and
\* underscores, each non-alphanumeric character having become "_".
C12_IdSanitized ==
  op \in {"_get_cleaned_operation_id", "get_cleaned_operation_id"}
    => /\ \A i \in 1..Len(ret.val.v) : IsAlnum(ret.val.v[i]) \/ ret.val.v[i] = "_"
       /\ arg.operation_id.t # "None" => ret.val.v = SubNonAlnum(arg.operation_id.v)

\* C13: the base URL is the url of the first entry of servers; with more than
\* one server declared the first url is still returned (a warning, no failure).
C13_FirstServerUrl ==
  (/\ op \in {"_get_base_url_from_spec", "base_url"}
   /\ Len(ServersOf(doc)) >= 1
   /\ Has(ServersOf(doc)[1], "url")
   /\ Len(Strip(ServersOf(doc)[1].url)) > 0)
    => /\ ret.exc = "none"
       /\ ret.val.v \in {ServersOf(doc)[1].url, Strip(ServersOf(doc)[1].url)}

\* C14: extracting the operation of a path and a verb fails with an error
\* whenever the path is absent from the document or the path declares no
\* operation for the verb; it never returns a result, None included.
C14_AbsentOperationFails ==
  /\ (op \in {"parse_path", "get_operation"} /\ ~Declares(doc, arg.path, arg.verb))
       => ret.exc # "none"
  /\ (op = "_get_path_strict" /\ ~DictHas(doc.paths, arg.path)) => ret.exc # "none"

\* the parameters declared by the operation of the last parse_path call
DeclaredParameters ==
  LET operation == OperationAt(doc, arg.path, arg.verb)
  IN  IF Has(operation, "parameters") THEN operation.parameters ELSE <<>>

\* C15: for an operation declaring inline parameters (in a document with one
\* server), extraction yields one APIProperty per declared parameter, in
\* declared order, each with required equal to the parameter's required flag
\* (false when absent) and location equal to its `in` value.
C15_InlineParameters ==
  (/\ op = "parse_path"
   /\ Declares(doc, arg.path, arg.verb)
   /\ Len(DeclaredParameters) > 0
   /\ \A i \in 1..Len(DeclaredParameters) :
        /\ ~Has(DeclaredParameters[i], "ref")
        /\ DeclaredParameters[i].in \in APIPropertyLocation
   /\ Len(ServersOf(doc)) = 1
   /\ ServersOf(doc)[1] = Server(ApiExampleCom))
    => /\ ret.exc = "none"
       /\ ret.val.t = "APIOperation"
       /\ ret.val.base_url = StrV(ApiExampleCom)
       /\ Len(ret.val.properties) = Len(DeclaredParameters)
       /\ \A i \in 1..Len(DeclaredParameters) :
            /\ ret.val.properties[i].name = DeclaredParameters[i].name
            /\ ret.val.properties[i].required
                 = (Has(DeclaredParameters[i], "required") /\ DeclaredParameters[i].required)
            /\ ret.val.properties[i].location = DeclaredParameters[i].in

\* the names of the references of schema s that no component of document d has
MissingRefs(d, s) == {n \in RefNames(s) : ~DictHas(d.schemas, n)}

\* C16: resolving a $ref whose target component does not exist fails with a
\* resolution error whose message names the missing component, for a schema
\* that is the reference and for a schema that holds it in a property, in its
\* items or in an anyOf branch.
C16_MissingRefNamed ==
  (op = "_get_pydantic_type" /\ "Missing" \in MissingRefs(doc, arg))
    => /\ ret.exc \in {"KeyError", "ValueError", "APIParsingError"}
       /\ ret.val = StrV("Missing")

\* C17: the loaded document is immutable under resolution: no call changes a
\* reference stored in a component schema's properties or anyOf, nor any
\* other field of an object of the document.
C17_DocumentImmutable == [][doc' = doc]_vars

\* the objects reached from the objects ids through pointers alone
RECURSIVE PointedObjects(_, _, _)
PointedObjects(heap, ids, k) ==
  IF k = 0 THEN ids
  ELSE PointedObjects(heap,
                      ids \cup UNION {{x.id : x \in {c \in ChildrenOf(heap[i]) : ~IsReference(c)}} : i \in ids},
                      k - 1)
\* the schema contains no $ref: neither it nor a schema below it is a Reference
RefFree(heap, schema) ==
  /\ ~IsReference(schema)
  /\ \A i \in PointedObjects(heap, {schema.id}, Cardinality(DOMAIN heap)) :
       \A c \in ChildrenOf(heap[i]) : ~IsReference(c)

\* C18: for a schema containing no $ref resolution is idempotent: resolving
\* the result of resolve_schema again gives the same schema, with the same
\* fields at every level.
C18_ResolutionIdempotent ==
  [][(/\ op' = "resolve_schema"
      /\ RefFree(doc.heap, arg'.schema)
      /\ ret'.exc = "none")
       => resolve_schema(ret'.val, doc', arg'.description, doc'.heap, MaxDepth) = ret']_vars

\* a schema without $ref, with properties and an anyOf below it, was resolved
C18_Witness ==
  /\ op = "resolve_schema"
  /\ ret.exc = "none"
  /\ RefFree(doc.heap, arg.schema)
  /\ \E i \in PointedObjects(doc.heap, {arg.schema.id}, Cardinality(DOMAIN doc.heap)) :
       Len(doc.heap[i].anyOf) > 0
  /\ Len(doc.heap[arg.schema.id].properties) > 0

\* the keys of the raw document, at both levels, and the entries of its lists
StrippableFields(obj) ==
  Cardinality(DOMAIN obj)
    + (IF Has(obj, "info") THEN Cardinality(DOMAIN obj.info) ELSE 0)
    + (IF Has(obj, "paths") THEN Cardinality(DOMAIN obj.paths) ELSE 0)
    + (IF Has(obj, "servers") THEN Len(obj.servers) ELSE 0)

\* C19: the strip-and-retry loop of parse_obj always terminates: every retry
\* follows a pass that stripped a field, so the passes are at most one more
\* than the fields of the document, and a document that a pass leaves
\* unchanged is not validated again (the call never runs out of stack).
C19_StripAndRetryTerminates ==
  op \in {"OpenAPISpec.parse_obj", "_OpenAPIModel.parse_obj"}
    => /\ ret.exc # "RecursionError"
       /\ ret.passes <= StrippableFields(doc) + 1

\* the content types of a request body that come with a schema
WithSchema(requestBody) ==
  {requestBody.content[i].name : i \in {j \in 1..Len(requestBody.content) :
                                          requestBody.content[j].def.media_type_schema # NoneV}}

\* C20: when a request body declares several content types with schemas,
\* the one selected is application/json whenever it is among them, in
\* whatever order the content types are declared.
C20_JsonPreferred ==
  (/\ op = "_resolve_request_body_schema"
   /\ ret.exc = "none"
   /\ arg.requestBody # NoneV
   /\ "application/json" \in WithSchema(arg.requestBody))
    => ret.val.encoding = "application/json"

\* the parameters of the operation are all declared in place, with a schema
\* that names no component
Standalone(operation) ==
  \A i \in 1..Len(operation.parameters) :
    /\ ~Has(operation.parameters[i], "ref")
    /\ Has(operation.parameters[i], "schema")
    /\ RefNames(operation.parameters[i].schema) = {}
\* the components of document d with a reference to a component d does not have
BrokenComponents(d) == {n \in DictKeys(d.schemas) : MissingRefs(d, DictGet(d.schemas, n)) # {}}
\* document d without these components
Sound(d) ==
  [d EXCEPT !.schemas = SelectSeq(d.schemas, LAMBDA c : c.name \notin BrokenComponents(d))]

\* C21: resolution failures are isolated per operation: when a component
\* schema has a $ref to a target that does not exist, extracting (without a
\* components cache) an operation that names no component still succeeds
\* whenever it succeeds on the document without that component.
C21_FailuresIsolated ==
  (/\ op = "parse_path"
   /\ arg.full_components_dict = <<>>
   /\ Declares(doc, arg.path, arg.verb)
   /\ Has(OperationAt(doc, arg.path, arg.verb), "parameters")
   /\ Standalone(OperationAt(doc, arg.path, arg.verb))
   /\ BrokenComponents(doc) # {}
   /\ parse_path(Sound(doc), arg.path, arg.verb, <<>>, Global).exc = "none")
    => ret.exc = "none"

C23_UntypedNeverRaises ==
  /\ (op \in Handlers /\ arg \in UntypedHolders) => ret.exc = "none"
  /\ (op \in Handlers /\ arg = Untyped) => ret.val = NoneV

\* the (name, location) pairs of a list of APIProperty or Parameter objects
\* have no duplicate
Deduplicated(entries) ==
  \A i, j \in 1..Len(entries) :
    LET location(x) == IF x.t = "Parameter" THEN x.param_in ELSE x.location IN
    (/\ i < j
     /\ Has(entries[i], "name") /\ Has(entries[j], "name")
     /\ entries[i].name = entries[j].name)
      => location(entries[i]) # location(entries[j])

\* C24: the parameter list assembled for an operation is deduplicated: no two
\* entries of the list returned by get_parameters_for_operation have the same
\* (name, location), even when the operation declares the same parameter
\* twice or both inline and through a reference to a component parameter.
C24_ParametersDeduplicated ==
  (op = "get_parameters_for_operation" /\ ret.exc = "none") => Deduplicated(ret.val.items)

\* the same for the properties of the APIOperation parse_path returns
PropertiesDeduplicated ==
  (op = "parse_path" /\ ret.exc = "none" /\ ret.val # NoneV)
    => Deduplicated(SelectSeq(ret.val.properties, LAMBDA x : x.t = "APIProperty"))

\* C25: following a chain of parameter or schema references to its root
\* terminates for every document: every call of _get_root_referenced_parameter
\* and _get_root_referenced_schema comes to hold a node that is not a
\* Reference, or raises, also when component references point at each other
\* in a cycle or at themselves.
C25_RootReached ==
  (op \in {"_get_root_referenced_parameter", "_get_root_referenced_schema"}) ~> Ended(ret)

\* C26: every element of the list _extract_api_properties returns, and of
\* the properties of the APIOperation parse_path returns, is an APIProperty: a $ref parameter never yields a resolved schema
\* type, a bare name or None, also when a component schema and a component
\* parameter have the same name.
C26_PropertiesAreAPIProperties ==
  /\ (op = "_extract_api_properties" /\ ret.exc = "none")
       => \A i \in 1..Len(ret.val) : ret.val[i].t = "APIProperty"
  /\ (op = "parse_path" /\ ret.exc = "none" /\ ret.val # NoneV)
       => \A i \in 1..Len(ret.val.properties) : ret.val.properties[i].t = "APIProperty"

\* dict a is dict b with some fields removed, at the top or one level below
Stripped(a, b) ==
  /\ DOMAIN a \subseteq DOMAIN b
  /\ \A k \in DOMAIN a :
       IF k \in {"info", "paths"}
         THEN DOMAIN a[k] \subseteq DOMAIN b[k] /\ \A j \in DOMAIN a[k] : a[k][j] = b[k][j]
         ELSE a[k] = b[k]
\* the field or entry a location names is in dict d
Present(d, loc) ==
  /\ Has(d, loc[1].key)
  /\ Len(loc) = 2 =>
       IF Has(loc[2], "index") THEN loc[2].index + 1 <= Len(d[loc[1].key])
       ELSE Has(d[loc[1].key], loc[2].key)

\* C27: one repair pass of the lenient validator produces a working copy
\* that differs from the input only by the removal of the fields at the
\* reported error locations, and the pass does not fail, also when one
\* location lies beneath a field another error already removed or when the
\* last key of a location is absent.
C27_RepairPass ==
  op = "parse_obj:except"
    => /\ ret.exc = "none"
       /\ Stripped(ret.val, doc)
       /\ \A i \in 1..Len(arg.errors) : ~Present(ret.val, arg.errors[i])

\* C28: _get_base_url_from_spec has exactly two outcomes for any document:
\* it returns a non-empty, whitespace-stripped base URL, or it raises
\* APIParsingError; a document with a missing or empty servers list, or whose
\* first server has an empty url, raises APIParsingError.
C28_BaseUrlOrParsingError ==
  op = "_get_base_url_from_spec"
    => /\ ret.exc \in {"none", "APIParsingError"}
       /\ ret.exc = "none" => Len(ret.val.v) > 0 /\ Strip(ret.val.v) = ret.val.v
       /\ (Len(ServersOf(doc)) = 0 \/ ~Has(ServersOf(doc)[1], "url")
             \/ Len(Strip(ServersOf(doc)[1].url)) = 0) => ret.exc = "APIParsingError"

\* C29: get_methods_for_path and get_operation agree: for a path of the
\* document get_methods_for_path returns, and an HTTP verb m is in the list
\* exactly when get_operation(path, m) returns an Operation without raising;
\* the methods are listed in the order HTTPVerb declares them, none twice.
C29_MethodsAgree ==
  op = "get_methods_for_path"
    => /\ DictHas(doc.paths, arg.path) <=> ret.exc = "none"
       /\ ret.exc = "none" =>
            /\ \A m \in HTTPVerb :
                 m \in SeqSet(ret.val) <=> OpenAPISpec_get_operation(doc, arg.path, m).exc = "none"
            /\ ret.val = SelectSeq(HTTPVerbMembers, LAMBDA m : m \in SeqSet(ret.val))

\* the methods of a path item that holds post before get were listed
C29_Witness ==
  /\ op = "get_methods_for_path"
  /\ ret.exc = "none"
  /\ KeySeq(DictGet(doc.paths, arg.path)) = <<Post, Get>>
  /\ ret.val = <<Get, Post>>

====
